---- MODULE Spec2Model ----
(***************************************************************************)
(* A model of excelio (src/excelio.go): column resolution, row mapping,    *)
(* the batch and the streaming reader, and the error annotator.            *)
(*                                                                         *)
(* Text is a sequence of one-character strings.  An error message          *)
(* (error.Error()) is kept as one element of such a sequence, so a cell    *)
(* holding "old\nmsg" is <<"o","l","d","\n",msg>>.                          *)
(***************************************************************************)
EXTENDS Integers, Sequences, FiniteSets, TLC

(***************************************************************************)
(* Bounds of the model.                                                    *)
(***************************************************************************)
\* data rows under the header row of a sheet the readers are given
MaxDataRows == 2
\* annotate calls in one behaviour
MaxCalls == 2

(***************************************************************************)
(* strings, strconv                                                        *)
(***************************************************************************)
UpperChars == <<"A","B","C","D","E","F","G","H","I","J","K","L","M",
                "N","O","P","Q","R","S","T","U","V","W","X","Y","Z">>

LowerChars == <<"a","b","c","d","e","f","g","h","i","j","k","l","m",
                "n","o","p","q","r","s","t","u","v","w","x","y","z">>

DigitChars == <<"0","1","2","3","4","5","6","7","8","9">>

SpaceChars == {" ", "\t", "\n", "\r"}

\* the position of c in seq, 0 when it is not there
PosIn(c, seq) ==
    IF \E i \in 1..Len(seq) : seq[i] = c
    THEN CHOOSE i \in 1..Len(seq) : seq[i] = c
    ELSE 0

ToLowerChar(c) == IF PosIn(c, UpperChars) > 0 THEN LowerChars[PosIn(c, UpperChars)] ELSE c

ToUpperChar(c) == IF PosIn(c, LowerChars) > 0 THEN UpperChars[PosIn(c, LowerChars)] ELSE c

ToLower(s) == [i \in 1..Len(s) |-> ToLowerChar(s[i])]

ToUpper(s) == [i \in 1..Len(s) |-> ToUpperChar(s[i])]

RECURSIVE TrimLeft(_)
TrimLeft(s) == IF s # <<>> /\ Head(s) \in SpaceChars THEN TrimLeft(Tail(s)) ELSE s

RECURSIVE TrimRight(_)
TrimRight(s) ==
    IF s # <<>> /\ s[Len(s)] \in SpaceChars
    THEN TrimRight(SubSeq(s, 1, Len(s) - 1))
    ELSE s

TrimSpace(s) == TrimRight(TrimLeft(s))

\* strings.Split(s, ","): the parts between the commas
RECURSIVE SplitComma(_)
SplitComma(s) ==
    IF PosIn(",", s) = 0
    THEN <<s>>
    ELSE <<SubSeq(s, 1, PosIn(",", s) - 1)>> \o SplitComma(SubSeq(s, PosIn(",", s) + 1, Len(s)))

RECURSIVE DigitsValue(_)
DigitsValue(s) ==
    IF s = <<>> THEN 0
    ELSE DigitsValue(SubSeq(s, 1, Len(s) - 1)) * 10 + (PosIn(s[Len(s)], DigitChars) - 1)

AllDigits(s) == s # <<>> /\ \A i \in 1..Len(s) : PosIn(s[i], DigitChars) > 0

\* the digits of s without leading zeros
RECURSIVE StripZeros(_)
StripZeros(s) == IF Len(s) > 1 /\ Head(s) = "0" THEN StripZeros(Tail(s)) ELSE s

\* whether the number written a is greater than the number written b, both
\* digit texts without leading zeros
RECURSIVE DigitsGreater(_, _)
DigitsGreater(a, b) ==
    IF Len(a) # Len(b) THEN Len(a) > Len(b)
    ELSE IF a = <<>> THEN FALSE
    ELSE IF Head(a) # Head(b) THEN PosIn(Head(a), DigitChars) > PosIn(Head(b), DigitChars)
    ELSE DigitsGreater(Tail(a), Tail(b))

\* 1<<63 - 1, 1<<63 and 1<<64 - 1 as written
MaxInt64Digits == <<"9","2","2","3","3","7","2","0","3","6","8","5","4","7","7","5","8","0","7">>

MinInt64Digits == <<"9","2","2","3","3","7","2","0","3","6","8","5","4","7","7","5","8","0","8">>

MaxUint64Digits == <<"1","8","4","4","6","7","4","4","0","7","3","7","0","9","5","5","1","6","1","5">>

\* the result of parsing digits against the greatest magnitude limit allows.
\* The value is computed for texts of up to nine digits; the longer texts of
\* this model are all out of range.
ParsedDigits(neg, digits, limit) ==
    IF ~AllDigits(digits) THEN [ok |-> FALSE, err |-> "invalid syntax", val |-> 0]
    ELSE IF DigitsGreater(StripZeros(digits), limit)
    THEN [ok |-> FALSE, err |-> "value out of range", val |-> 0]
    ELSE [ok |-> TRUE, err |-> "nil",
          val |-> IF neg THEN 0 - DigitsValue(digits) ELSE DigitsValue(digits)]

\* strconv.ParseInt(s, 10, 64) and strconv.Atoi(s): an optional sign, then digits
ParseInt(s) ==
    IF s # <<>> /\ Head(s) \in {"+", "-"}
    THEN ParsedDigits(Head(s) = "-", Tail(s),
                      IF Head(s) = "-" THEN MinInt64Digits ELSE MaxInt64Digits)
    ELSE ParsedDigits(FALSE, s, MaxInt64Digits)

\* strconv.ParseUint(s, 10, 64): digits, no sign
ParseUint(s) == ParsedDigits(FALSE, s, MaxUint64Digits)

(***************************************************************************)
(* Type metadata and tags                                                  *)
(***************************************************************************)
\* a field of the caller's struct type with its tags (reflect.StructField)
StructField(name, kind, excel, col, excelcol, required, validate) ==
    [Name |-> name, Kind |-> kind, Ptr |-> FALSE, Exported |-> TRUE, excel |-> excel, col |-> col,
     excelcol |-> excelcol, required |-> required, fmt |-> <<>>, validate |-> validate]

\* splitAndTrim: the trimmed, non-empty parts of a comma-separated tag
SplitAndTrim(s) ==
    IF s = <<>> THEN <<>>
    ELSE SelectSeq([i \in 1..Len(SplitComma(s)) |-> TrimSpace(SplitComma(s)[i])],
                   LAMBDA p : p # <<>>)

\* the col tag: n, err := strconv.Atoi(...); err == nil && n > 0 gives n - 1
ColIndexTagOf(n) == IF n.ok /\ n.val > 0 THEN n.val - 1 ELSE -1

\* the body of getTypeMeta's loop for one struct field f that has a mapping tag
NewFieldMeta(f, i) ==
    [Index        |-> i,
     FieldName    |-> f.Name,
     ColumnNames  |-> SplitAndTrim(f.excel),
     ColIndexTag  |-> IF f.col # <<>> THEN ColIndexTagOf(ParseInt(TrimSpace(f.col))) ELSE -1,
     ColLetterTag |-> IF f.excelcol # <<>> THEN ToUpper(TrimSpace(f.excelcol)) ELSE <<>>,
     Required     |-> f.required = <<"1">> \/ ToLower(f.required) = <<"t","r","u","e">>,
     TimeFormat   |-> f.fmt,
     lastColIndex |-> 0]

\* whether getTypeMeta keeps struct field f: exported, with at least one mapping tag
IsMappable(f) == f.Exported /\ ~(f.excel = <<>> /\ f.col = <<>> /\ f.excelcol = <<>>)

\* getTypeMeta's construction: the descriptors of the mappable fields, in struct
\* order.  FieldByName is the lookup FindFieldByName below.
BuildTypeMeta(struct) ==
    LET keep == SelectSeq([i \in 1..Len(struct) |-> i], LAMBDA i : IsMappable(struct[i]))
    IN  [Fields |-> [k \in 1..Len(keep) |-> NewFieldMeta(struct[keep[k]], keep[k])]]

\* typeMeta.FindFieldByName: the position of the descriptor in meta.Fields, 0 for nil
FindFieldByName(meta, name) ==
    IF \E k \in 1..Len(meta.Fields) : meta.Fields[k].FieldName = name
    THEN CHOOSE k \in 1..Len(meta.Fields) : meta.Fields[k].FieldName = name
    ELSE 0

(***************************************************************************)
(* Column helpers                                                          *)
(***************************************************************************)
RECURSIVE ColLetterOf(_)
\* the loop of colLetter on n = idx + 1 > 0
ColLetterOf(n) ==
    IF n <= 0 THEN <<>>
    ELSE ColLetterOf((n - 1) \div 26) \o <<UpperChars[((n - 1) % 26) + 1]>>

colLetter(idx) == IF idx + 1 <= 0 THEN <<>> ELSE ColLetterOf(idx + 1)

RECURSIVE LetterValue(_)
LetterValue(s) ==
    IF s = <<>> THEN 0
    ELSE LetterValue(SubSeq(s, 1, Len(s) - 1)) * 26 + PosIn(s[Len(s)], UpperChars)

colIndexFromLetter(s0) ==
    LET s == TrimSpace(ToUpper(s0))
    IN  IF s = <<>> THEN -1
        ELSE IF \E i \in 1..Len(s) : PosIn(s[i], UpperChars) = 0 THEN -1
        ELSE LetterValue(s) - 1

(***************************************************************************)
(* Header helpers                                                          *)
(***************************************************************************)
\* A sheet is a sequence of rows; a row is [cols |-> <<text, ...>>, bad |-> b],
\* bad when rows.Columns() returns an error for it.
\* parseHeader: the trimmed cells of row headerRow; an error when a row up to
\* it cannot be read or the sheet has fewer rows.  Column i is cols[i + 1].
parseHeader(rows, headerRow) ==
    IF \E r \in 1..Len(rows) : r <= headerRow /\ rows[r].bad
    THEN [ok |-> FALSE, err |-> "columns error", m |-> <<>>]
    ELSE IF headerRow > Len(rows)
    THEN [ok |-> FALSE, err |-> "header row not found", m |-> <<>>]
    ELSE [ok |-> TRUE, err |-> "nil",
          m |-> [i \in 1..Len(rows[headerRow].cols) |-> TrimSpace(rows[headerRow].cols[i])]]

HeaderKey(name) == ToLower(TrimSpace(name))

\* The loop that fills headerIndex from headerMap.  Go ranges over a map in an
\* unspecified order, so a key present in several columns ends at any one of them.
HeaderIndexChoices(headerMap) ==
    LET keys == {HeaderKey(headerMap[i]) : i \in 1..Len(headerMap)} \ {<<>>}
    IN  {hi \in [keys -> 0..(Len(headerMap) - 1)] :
            \A k \in keys : HeaderKey(headerMap[hi[k] + 1]) = k}

(***************************************************************************)
(* Row mapping: column resolution                                          *)
(***************************************************************************)
\* the first name of fm.ColumnNames that is a key of headerIndex, 0 when none is
FirstHeaderMatch(fm, headerIndex) ==
    LET hit == {i \in 1..Len(fm.ColumnNames) : HeaderKey(fm.ColumnNames[i]) \in DOMAIN headerIndex}
    IN  IF hit = {} THEN 0 ELSE CHOOSE i \in hit : \A j \in hit : i <= j

\* a mutant of ResolveField: the letter hint is tried before the explicit number
ResolveFieldLetterFirst(fm, headerIndex) ==
    IF fm.ColLetterTag # <<>> /\ colIndexFromLetter(fm.ColLetterTag) >= 0
    THEN [ok |-> TRUE, idx |-> colIndexFromLetter(fm.ColLetterTag)]
    ELSE IF fm.ColIndexTag >= 0
    THEN [ok |-> TRUE, idx |-> fm.ColIndexTag]
    ELSE IF Len(fm.ColumnNames) > 0 /\ DOMAIN headerIndex # {}
            /\ FirstHeaderMatch(fm, headerIndex) > 0
    THEN [ok |-> TRUE,
          idx |-> headerIndex[HeaderKey(fm.ColumnNames[FirstHeaderMatch(fm, headerIndex)])]]
    ELSE [ok |-> FALSE, idx |-> -1]

\* one iteration of buildFieldColIndex's loop: the column of one descriptor
ResolveField(fm, headerIndex) ==
    IF fm.ColIndexTag >= 0
    THEN [ok |-> TRUE, idx |-> fm.ColIndexTag]
    ELSE IF fm.ColLetterTag # <<>> /\ colIndexFromLetter(fm.ColLetterTag) >= 0
    THEN [ok |-> TRUE, idx |-> colIndexFromLetter(fm.ColLetterTag)]
    ELSE IF Len(fm.ColumnNames) > 0 /\ DOMAIN headerIndex # {}
            /\ FirstHeaderMatch(fm, headerIndex) > 0
    THEN [ok |-> TRUE,
          idx |-> headerIndex[HeaderKey(fm.ColumnNames[FirstHeaderMatch(fm, headerIndex)])]]
    ELSE [ok |-> FALSE, idx |-> -1]

\* buildFieldColIndex: descriptor position -> column, the unresolved ones left out
buildFieldColIndex(meta, headerIndex) ==
    [k \in {j \in 1..Len(meta.Fields) : ResolveField(meta.Fields[j], headerIndex).ok}
        |-> ResolveField(meta.Fields[k], headerIndex).idx]

(***************************************************************************)
(* Floating-point and time parsing                                         *)
(***************************************************************************)
\* the value of digit text, 0 for none
DigitsOrZero(s) == IF s = <<>> THEN 0 ELSE DigitsValue(s)

\* the number sign, whole part and fraction part (as written) denote
FloatOf(neg, whole, frac) ==
    IF (whole = <<>> /\ frac = <<>>) \/ (whole # <<>> /\ ~AllDigits(whole))
       \/ (frac # <<>> /\ ~AllDigits(frac))
    THEN [ok |-> FALSE, neg |-> FALSE, whole |-> 0, fnum |-> 0, fden |-> 1]
    ELSE [ok |-> TRUE, neg |-> neg, whole |-> DigitsOrZero(whole),
          fnum |-> DigitsOrZero(frac), fden |-> 10^Len(frac)]

\* the text after an optional sign, split at its first point
UnsignedFloat(neg, body) ==
    IF PosIn(".", body) = 0 THEN FloatOf(neg, body, <<>>)
    ELSE FloatOf(neg, SubSeq(body, 1, PosIn(".", body) - 1),
                 SubSeq(body, PosIn(".", body) + 1, Len(body)))

\* strconv.ParseFloat(s, 64) for decimal text with no exponent: the number is
\* whole + fnum/fden, negated when neg.  The texts of this model have whole
\* parts of up to nine digits and fractions of up to four.
ParseFloat(s) ==
    IF s # <<>> /\ Head(s) \in {"+", "-"} THEN UnsignedFloat(Head(s) = "-", Tail(s))
    ELSE UnsignedFloat(FALSE, s)

\* A time.Time is [date |-> <<year, month, day>>, sec |-> seconds of the day,
\* zone |-> minutes east of UTC].  time.Time{}:
ZeroTime == [date |-> <<1, 1, 1>>, sec |-> 0, zone |-> 0]

IsLeap(y) == y % 4 = 0 /\ (y % 100 # 0 \/ y % 400 = 0)

\* package time's daysIn(month, year)
DaysIn(m, y) ==
    IF m = 2 THEN (IF IsLeap(y) THEN 29 ELSE 28)
    ELSE IF m \in {4, 6, 9, 11} THEN 30 ELSE 31

\* the days from 1970-01-01 to the date y-m-d of the proleptic Gregorian
\* calendar, as time.Date counts them
DaysFromCivilShifted(y, mp, d) ==
    (y \div 400) * 146097 + (y % 400) * 365 + (y % 400) \div 4 - (y % 400) \div 100
        + (153 * mp + 2) \div 5 + d - 1 - 719468

DaysFromCivil(date) ==
    IF date[2] <= 2 THEN DaysFromCivilShifted(date[1] - 1, date[2] + 9, date[3])
    ELSE DaysFromCivilShifted(date[1], date[2] - 3, date[3])

\* the date of a day of an era of 400 years, from the year of the era, the day
\* of the March-based year and its month
CivilOfEra(era, yoe, doy, mp) ==
    << yoe + era * 400 + (IF mp < 10 THEN 0 ELSE 1),
       IF mp < 10 THEN mp + 3 ELSE mp - 9,
       doy - (153 * mp + 2) \div 5 + 1 >>

CivilOfYear(era, doe, yoe) ==
    CivilOfEra(era, yoe, doe - (365 * yoe + yoe \div 4 - yoe \div 100),
               (5 * (doe - (365 * yoe + yoe \div 4 - yoe \div 100)) + 2) \div 153)

CivilOfDay(era, doe) ==
    CivilOfYear(era, doe, (doe - doe \div 1460 + doe \div 36524 - doe \div 146096) \div 365)

\* Time.Date() of the day z days from 1970-01-01
CivilFromDays(z) == CivilOfDay((z + 719468) \div 146097, (z + 719468) % 146097)

\* t.AddDate(0, 0, days): time.Date(y, m, d + days, ...) normalised
AddDays(t, days) == [t EXCEPT !.date = CivilFromDays(DaysFromCivil(t.date) + days)]

\* t.Add(sec * time.Second) for sec >= 0
AddSeconds(t, sec) ==
    [AddDays(t, (t.sec + sec) \div 86400) EXCEPT !.sec = (t.sec + sec) % 86400]

\* int64(frac*secondsInDay + 0.5) for the fraction fnum/fden
SerialSeconds(f) == (f.fnum * 86400 + f.fden \div 2) \div f.fden

\* a mutant of excelSerialToTime: the base is 1899-12-31
excelSerialToTime1900(f) ==
    IF f.neg \/ (f.whole = 0 /\ f.fnum = 0) THEN [err |-> "invalid excel serial", val |-> ZeroTime]
    ELSE [err |-> "nil",
          val |-> AddSeconds(AddDays([date |-> <<1899, 12, 31>>, sec |-> 0, zone |-> 0], f.whole),
                             SerialSeconds(f))]

\* excelSerialToTime
excelSerialToTime(f) ==
    IF f.neg \/ (f.whole = 0 /\ f.fnum = 0) THEN [err |-> "invalid excel serial", val |-> ZeroTime]
    ELSE [err |-> "nil",
          val |-> AddSeconds(AddDays([date |-> <<1899, 12, 30>>, sec |-> 0, zone |-> 0], f.whole),
                             SerialSeconds(f))]

\* whether text l starts with text pre
HasPrefix(l, pre) == Len(l) >= Len(pre) /\ SubSeq(l, 1, Len(pre)) = pre

\* package time's nextStdChunk at the head of layout l, for the chunks the
\* layouts of this model are written with: the element and its length.
\* Any other character stands for itself.
LayoutChunk(l) ==
    CASE HasPrefix(l, <<"2", "0", "0", "6">>) -> [std |-> "year", n |-> 4]
      [] HasPrefix(l, <<"Z", "0", "7", ":", "0", "0">>) -> [std |-> "zone", n |-> 6]
      [] HasPrefix(l, <<"0", "1">>) -> [std |-> "month", n |-> 2]
      [] HasPrefix(l, <<"0", "2">>) -> [std |-> "day", n |-> 2]
      [] HasPrefix(l, <<"1", "5">>) -> [std |-> "hour", n |-> 2]
      [] HasPrefix(l, <<"0", "4">>) -> [std |-> "minute", n |-> 2]
      [] HasPrefix(l, <<"0", "5">>) -> [std |-> "second", n |-> 2]
      [] OTHER -> [std |-> Head(l), n |-> 1]

\* the elements of a layout, in order
RECURSIVE LayoutChunks(_)
LayoutChunks(l) ==
    IF l = <<>> THEN <<>>
    ELSE <<LayoutChunk(l).std>> \o LayoutChunks(SubSeq(l, LayoutChunk(l).n + 1, Len(l)))

\* package time's getnum(value, fixed): one or two leading digits, two when fixed
GetNum(value, fixed) ==
    IF value = <<>> \/ PosIn(value[1], DigitChars) = 0 THEN [ok |-> FALSE, n |-> 0, len |-> 0]
    ELSE IF Len(value) < 2 \/ PosIn(value[2], DigitChars) = 0
    THEN [ok |-> ~fixed, n |-> PosIn(value[1], DigitChars) - 1, len |-> 1]
    ELSE [ok |-> TRUE, n |-> DigitsValue(SubSeq(value, 1, 2)), len |-> 2]

\* the parse state with field fld given the number num read, when it is below lim
TakeNum(st, fld, num, lo, hi) ==
    IF ~num.ok \/ num.n < lo \/ num.n > hi THEN [st EXCEPT !.ok = FALSE]
    ELSE [st EXCEPT ![fld] = num.n, !.rest = SubSeq(st.rest, num.len + 1, Len(st.rest))]

\* the four digits of a year
TakeYear(st) ==
    IF Len(st.rest) < 4 \/ ~AllDigits(SubSeq(st.rest, 1, 4)) THEN [st EXCEPT !.ok = FALSE]
    ELSE [st EXCEPT !.year = DigitsValue(SubSeq(st.rest, 1, 4)), !.rest = SubSeq(st.rest, 5, Len(st.rest))]

\* a zone written Z or as sign, hours, colon, minutes
TakeZone(st) ==
    IF HasPrefix(st.rest, <<"Z">>) THEN [st EXCEPT !.rest = Tail(st.rest)]
    ELSE IF Len(st.rest) >= 6 /\ st.rest[1] \in {"+", "-"} /\ st.rest[4] = ":"
            /\ AllDigits(SubSeq(st.rest, 2, 3)) /\ AllDigits(SubSeq(st.rest, 5, 6))
            /\ DigitsValue(SubSeq(st.rest, 2, 3)) <= 24 /\ DigitsValue(SubSeq(st.rest, 5, 6)) <= 60
    THEN [st EXCEPT !.zone = (IF st.rest[1] = "-" THEN -1 ELSE 1)
                               * (DigitsValue(SubSeq(st.rest, 2, 3)) * 60
                                    + DigitsValue(SubSeq(st.rest, 5, 6))),
                    !.rest = SubSeq(st.rest, 7, Len(st.rest))]
    ELSE [st EXCEPT !.ok = FALSE]

\* the text after the digits at its head
RECURSIVE SkipDigits(_)
SkipDigits(v) == IF v # <<>> /\ PosIn(Head(v), DigitChars) > 0 THEN SkipDigits(Tail(v)) ELSE v

\* a fraction of a second after the seconds, read though the layout has none;
\* the time values of this model carry whole seconds
SkipFraction(st) ==
    IF st.ok /\ Len(st.rest) >= 2 /\ st.rest[1] \in {".", ","} /\ PosIn(st.rest[2], DigitChars) > 0
    THEN [st EXCEPT !.rest = SkipDigits(Tail(st.rest))]
    ELSE st

\* Time.Parse's step for one element of the layout
ParseChunk(std, st) ==
    CASE std = "year" -> TakeYear(st)
      [] std = "month" -> TakeNum(st, "month", GetNum(st.rest, TRUE), 1, 12)
      [] std = "day" -> TakeNum(st, "day", GetNum(st.rest, TRUE), 0, 99)
      [] std = "hour" -> TakeNum(st, "hour", GetNum(st.rest, FALSE), 0, 23)
      [] std = "minute" -> TakeNum(st, "minute", GetNum(st.rest, TRUE), 0, 59)
      [] std = "second" -> SkipFraction(TakeNum(st, "second", GetNum(st.rest, TRUE), 0, 59))
      [] std = "zone" -> TakeZone(st)
      [] OTHER -> IF HasPrefix(st.rest, <<std>>) THEN [st EXCEPT !.rest = Tail(st.rest)]
                  ELSE [st EXCEPT !.ok = FALSE]

RECURSIVE ParseChunks(_, _)
ParseChunks(chunks, st) ==
    IF chunks = <<>> \/ ~st.ok THEN st
    ELSE ParseChunks(Tail(chunks), ParseChunk(Head(chunks), st))

\* the end of time.Parse: no text left, the day one of its month
ParsedTime(st) ==
    IF st.ok /\ st.rest = <<>> /\ st.day >= 1 /\ st.day <= DaysIn(st.month, st.year)
    THEN [err |-> "nil",
          val |-> [date |-> <<st.year, st.month, st.day>>,
                   sec |-> st.hour * 3600 + st.minute * 60 + st.second, zone |-> st.zone]]
    ELSE [err |-> "parsing time", val |-> ZeroTime]

\* time.Parse(layout, value)
timeParse(layout, value) ==
    ParsedTime(ParseChunks(LayoutChunks(layout),
                           [ok |-> TRUE, rest |-> value, year |-> 0, month |-> 1, day |-> 1,
                            hour |-> 0, minute |-> 0, second |-> 0, zone |-> 0]))

\* time.RFC3339
RFC3339 == <<"2", "0", "0", "6", "-", "0", "1", "-", "0", "2", "T", "1", "5", ":", "0", "4", ":", "0", "5", "Z", "0", "7", ":", "0", "0">>

\* the common layouts of parseTime, in its order
CommonLayouts ==
    << <<"2", "0", "0", "6", "-", "0", "1", "-", "0", "2">>,
       <<"0", "2", "/", "0", "1", "/", "2", "0", "0", "6">>,
       <<"0", "2", "-", "0", "1", "-", "2", "0", "0", "6">>,
       <<"2", "0", "0", "6", "/", "0", "1", "/", "0", "2">>,
       <<"0", "2", "/", "0", "1", "/", "2", "0", "0", "6", " ", "1", "5", ":", "0", "4">>,
       <<"2", "0", "0", "6", "-", "0", "1", "-", "0", "2", " ", "1", "5", ":", "0", "4">>,
       <<"0", "2", "-", "0", "1", "-", "2", "0", "0", "6", " ", "1", "5", ":", "0", "4">> >>

\* step 4 of parseTime: the text as an Excel serial number
SerialOutcome(r) == IF r.err = "nil" THEN r ELSE [err |-> "cannot parse time", val |-> ZeroTime]

SerialFallback(f) ==
    IF f.ok THEN SerialOutcome(excelSerialToTime(f))
    ELSE [err |-> "cannot parse time", val |-> ZeroTime]

\* steps 1 to 3 of parseTime: the first layout of the list that parses s
RECURSIVE TryLayouts(_, _)
FirstParsed(r, layouts, s) == IF r.err = "nil" THEN r ELSE TryLayouts(layouts, s)

TryLayouts(layouts, s) ==
    IF layouts = <<>> THEN SerialFallback(ParseFloat(s))
    ELSE FirstParsed(timeParse(Head(layouts), s), Tail(layouts), s)

\* parseTime(raw, fm) for a descriptor whose TimeFormat is fmt
parseTime(raw, fmt) ==
    IF TrimSpace(raw) = <<>> THEN [err |-> "empty time", val |-> ZeroTime]
    ELSE TryLayouts((IF fmt # <<>> THEN <<fmt>> ELSE <<>>) \o <<RFC3339>> \o CommonLayouts,
                    TrimSpace(raw))

(***************************************************************************)
(* Type conversion                                                         *)
(***************************************************************************)
TrueWords == {<<"1">>, <<"t","r","u","e">>, <<"t">>, <<"y","e","s">>, <<"y">>, <<"o","n">>}

FalseWords == {<<"0">>, <<"f","a","l","s","e">>, <<"f">>, <<"n","o">>, <<"n">>, <<"o","f","f">>}

parseBool(raw) ==
    LET s == TrimSpace(ToLower(raw))
    IN  IF s \in TrueWords THEN [err |-> "nil", val |-> TRUE]
        ELSE IF s \in FalseWords THEN [err |-> "nil", val |-> FALSE]
        ELSE [err |-> "invalid bool", val |-> FALSE]

\* the bits of an integer kind; int and uint are 64 bits wide
BitSize(kind) ==
    CASE kind \in {"int8", "uint8"} -> 8
      [] kind \in {"int16", "uint16"} -> 16
      [] OTHER -> 64

\* reflect.Value.SetInt(x) on a field of w bits: the low w bits of x, signed
SetInt(v, w) ==
    IF w = 64 THEN v ELSE ((v + 2^(w - 1)) % 2^w) - 2^(w - 1)

\* reflect.Value.SetUint(x) on a field of w bits: the low w bits of x
SetUint(v, w) == IF w = 64 THEN v ELSE v % 2^w

\* field.SetInt(i) after strconv.ParseInt, or the parse error
SetParsedInt(p, w, old) ==
    IF p.ok THEN [err |-> "nil", val |-> SetInt(p.val, w)] ELSE [err |-> p.err, val |-> old]

\* field.SetUint(u) after strconv.ParseUint, or the parse error
SetParsedUint(p, w, old) ==
    IF p.ok THEN [err |-> "nil", val |-> SetUint(p.val, w)] ELSE [err |-> p.err, val |-> old]

\* the integer kinds of reflect
IntKinds == {"int", "int8", "int16"}

UintKinds == {"uint", "uint8", "uint16"}

\* field.SetBool(b) after parseBool, or its error
SetParsedBool(b, old) == IF b.err = "nil" THEN b ELSE [err |-> b.err, val |-> old]

\* field.SetFloat(f) after strconv.ParseFloat, or the parse error
SetParsedFloat(f, old) ==
    IF f.ok THEN [err |-> "nil", val |-> [neg |-> f.neg, whole |-> f.whole, fnum |-> f.fnum, fden |-> f.fden]]
    ELSE [err |-> "invalid syntax", val |-> old]

\* field.Set(reflect.ValueOf(tm)) after parseTime, or its error
SetParsedTime(t, old) == IF t.err = "nil" THEN t ELSE [err |-> t.err, val |-> old]

\* convertAndSet for the kinds the record types of this model use; old is the
\* field's value before, kept when the conversion fails.
convertAndSet(kind, fmt, raw, old) ==
    CASE kind = "string" -> [err |-> "nil", val |-> raw]
      [] kind \in IntKinds -> SetParsedInt(ParseInt(TrimSpace(raw)), BitSize(kind), old)
      [] kind \in UintKinds -> SetParsedUint(ParseUint(TrimSpace(raw)), BitSize(kind), old)
      [] kind = "float64" -> SetParsedFloat(ParseFloat(TrimSpace(raw)), old)
      [] kind = "bool" -> SetParsedBool(parseBool(TrimSpace(raw)), old)
      [] kind = "time" -> SetParsedTime(parseTime(raw, fmt), old)
      [] OTHER -> [err |-> "unsupported kind", val |-> old]

\* field.Set(elem.Addr()) of a pointer field: a fresh element <<v>>
SetPointer(conv, old) ==
    IF conv.err # "nil" THEN [err |-> conv.err, val |-> old]
    ELSE [err |-> "nil", val |-> <<conv.val>>]

\* setFieldValue: a pointer field stays nil (<<>>) on blank text
setFieldValue(f, raw, old) ==
    IF f.Ptr
    THEN IF TrimSpace(raw) = <<>> THEN [err |-> "nil", val |-> old]
         ELSE SetPointer(convertAndSet(f.Kind, f.fmt, raw, 0), old)
    ELSE convertAndSet(f.Kind, f.fmt, raw, old)

\* the zero value of a struct field: reflect.New(t).Elem()
ZeroValue(f) ==
    IF f.Ptr THEN <<>>
    ELSE CASE f.Kind = "string" -> <<>>
           [] f.Kind = "bool" -> FALSE
           [] f.Kind = "float64" -> [neg |-> FALSE, whole |-> 0, fnum |-> 0, fden |-> 1]
           [] f.Kind = "time" -> ZeroTime
           [] OTHER -> 0

ZeroStruct(struct) ==
    [n \in {struct[i].Name : i \in 1..Len(struct)} |->
        ZeroValue(struct[CHOOSE i \in 1..Len(struct) : struct[i].Name = n])]

(***************************************************************************)
(* Row mapping                                                             *)
(***************************************************************************)
\* buildRowError; fm is <<>> for a nil descriptor and <<descriptor>> otherwise,
\* headerMap is <<>> when no header row was parsed
buildRowError(rowIdx, logicalIdx, fm, colIdx, headerMap, cols, err) ==
    LET inRange == colIdx >= 0 /\ colIdx < Len(cols)
        hdrName == IF inRange /\ colIdx < Len(headerMap) THEN headerMap[colIdx + 1] ELSE <<>>
    IN  [ExcelRowIndex |-> rowIdx,
         LogicalIndex  |-> logicalIdx,
         ColIndex      |-> colIdx + 1,
         ColLetter     |-> IF inRange THEN colLetter(colIdx) ELSE <<>>,
         Field         |-> IF fm # <<>> THEN fm[1].FieldName ELSE "",
         Column        |-> IF hdrName = <<>> /\ fm # <<>> /\ Len(fm[1].ColumnNames) > 0
                           THEN fm[1].ColumnNames[1]
                           ELSE hdrName,
         Value         |-> IF inRange THEN cols[colIdx + 1] ELSE <<>>,
         Err           |-> err]

\* a RowError built without buildRowError: only the row numbers and the error
BareRowError(rowIdx, logicalIdx, err) ==
    [ExcelRowIndex |-> rowIdx, LogicalIndex |-> logicalIdx, ColIndex |-> 0,
     ColLetter |-> <<>>, Field |-> "", Column |-> <<>>, Value |-> <<>>, Err |-> err]

\* validator.Validate.Struct for the rule "required": one failure per struct
\* field tagged validate:"required" that holds its zero value, in struct order
ValidatorStruct(struct, obj) ==
    LET bad == SelectSeq([i \in 1..Len(struct) |-> i],
                         LAMBDA i : struct[i].validate = "required"
                                    /\ obj[struct[i].Name] = ZeroValue(struct[i]))
    IN  [i \in 1..Len(bad) |-> [StructField |-> struct[bad[i]].Name, Tag |-> "required"]]

\* setFieldValue's result as the loop uses it
SetOutcome(set) == [err |-> set.err, set |-> set.err = "nil", val |-> set.val]

\* What mapRow's loop does with one resolved field: err is the error of the
\* RowError it appends ("nil" for none), set whether the field is assigned val.
FieldOutcome(fm, f, cols, colIdx, old) ==
    IF colIdx < 0 \/ colIdx >= Len(cols)
    THEN [err |-> IF fm.Required THEN "required column out of range" ELSE "nil",
          set |-> FALSE, val |-> old]
    ELSE IF TrimSpace(cols[colIdx + 1]) = <<>>
    THEN [err |-> IF fm.Required THEN "required value is empty" ELSE "nil",
          set |-> FALSE, val |-> old]
    ELSE SetOutcome(setFieldValue(f, cols[colIdx + 1], old))

\* One iteration of mapRow's loop over meta.Fields, for a field resolved to
\* colIdx.  acc carries the record being filled (v), rowErrs, rowHasError and
\* the descriptors (meta), whose lastColIndex the loop writes.
MapResolvedField(acc, k, cx, colIdx, out) ==
    [acc EXCEPT
        !.meta.Fields[k].lastColIndex = colIdx,
        !.v[cx.struct[acc.meta.Fields[k].Index].Name] = IF out.set THEN out.val ELSE @,
        !.rowHasError = @ \/ out.err # "nil",
        !.rowErrs = IF out.err = "nil" THEN @
                    ELSE Append(@, buildRowError(cx.rowIdx, cx.logicalIdx, <<acc.meta.Fields[k]>>,
                                                 colIdx, cx.headerMap, cx.cols, out.err))]

MapField(acc, k, cx) ==
    IF k \notin DOMAIN cx.fieldColIndex THEN acc
    ELSE MapResolvedField(acc, k, cx, cx.fieldColIndex[k],
            FieldOutcome(acc.meta.Fields[k], cx.struct[acc.meta.Fields[k].Index], cx.cols,
                         cx.fieldColIndex[k],
                         acc.v[cx.struct[acc.meta.Fields[k].Index].Name]))

RECURSIVE MapFields(_, _, _)
MapFields(acc, k, cx) ==
    IF k > Len(acc.meta.Fields) THEN acc ELSE MapFields(MapField(acc, k, cx), k + 1, cx)

\* a mutant of ValidationRowError: an unknown field is given column index 0
ValidationRowErrorAtZero(acc, pos, cx) ==
    buildRowError(cx.rowIdx, cx.logicalIdx,
                  IF pos = 0 THEN <<>> ELSE <<acc.meta.Fields[pos]>>,
                  IF pos = 0 THEN 0 ELSE acc.meta.Fields[pos].lastColIndex,
                  cx.headerMap, cx.cols, "validation failed")

\* the RowError of one validator failure: the field's descriptor at pos in
\* meta.Fields (0 for an unknown field) and its lastColIndex
ValidationRowError(acc, pos, cx) ==
    buildRowError(cx.rowIdx, cx.logicalIdx,
                  IF pos = 0 THEN <<>> ELSE <<acc.meta.Fields[pos]>>,
                  IF pos = 0 THEN -1 ELSE acc.meta.Fields[pos].lastColIndex,
                  cx.headerMap, cx.cols, "validation failed")

\* mapRow's loop over the validator's failures: one RowError each
RECURSIVE ValidateFields(_, _, _)
ValidateFields(acc, verrs, cx) ==
    IF verrs = <<>> THEN acc
    ELSE ValidateFields(
            [acc EXCEPT
                !.rowHasError = TRUE,
                !.rowErrs = Append(@, ValidationRowError(acc,
                                         FindFieldByName(acc.meta, Head(verrs).StructField), cx))],
            Tail(verrs), cx)

\* mapRow's validation block.  validator.Struct on a struct value returns nil
\* or ValidationErrors.
ValidateRow(struct, o, acc, cx) ==
    IF o.GoValidator THEN ValidateFields(acc, ValidatorStruct(struct, acc.v), cx) ELSE acc

\* a mutant of MapRowResult: errors are soft, the record is returned with them
MapRowResultSoft(struct, acc) ==
    [obj |-> acc.v, rowErrs |-> acc.rowErrs, ok |-> TRUE, meta |-> acc.meta]

\* mapRow's return statements
MapRowResult(struct, acc) ==
    IF acc.rowHasError
    THEN [obj |-> ZeroStruct(struct), rowErrs |-> acc.rowErrs, ok |-> FALSE, meta |-> acc.meta]
    ELSE [obj |-> acc.v, rowErrs |-> <<>>, ok |-> TRUE, meta |-> acc.meta]

MapContext(struct, fieldColIndex, headerMap, rowIdx, logicalIdx, cols) ==
    [struct |-> struct, fieldColIndex |-> fieldColIndex, headerMap |-> headerMap,
     rowIdx |-> rowIdx, logicalIdx |-> logicalIdx, cols |-> cols]

\* the loop over meta.Fields, then the validation block
MapAndValidate(struct, meta, o, cx) ==
    ValidateRow(struct, o,
                MapFields([v |-> ZeroStruct(struct), rowErrs |-> <<>>, rowHasError |-> FALSE,
                           meta |-> meta], 1, cx),
                cx)

\* mapRow: the record, the row's errors, whether the row is valid, and the
\* descriptors as the call leaves them
mapRow(struct, meta, fieldColIndex, headerMap, o, rowIdx, logicalIdx, cols) ==
    MapRowResult(struct,
        MapAndValidate(struct, meta, o,
            MapContext(struct, fieldColIndex, headerMap, rowIdx, logicalIdx, cols)))

(***************************************************************************)
(* Options, sheet resolve                                                  *)
(***************************************************************************)
\* the zero Options value the option helpers start from
ZeroOptions ==
    [SheetName |-> "", SheetIndex |-> 0, HeaderRow |-> 0, FirstDataRow |-> 0,
     RowIndexMapper |-> "nil", GoValidator |-> FALSE, ErrorColumnIndex |-> 0,
     sheetResolved |-> "", streamHandler |-> FALSE]

\* a mutant of applyDefaults: with neither row set, only the first data row
\* gets a default and no header row is configured
applyDefaultsNoHeader(o) ==
    LET o1 == IF o.SheetIndex < 0 THEN [o EXCEPT !.SheetIndex = 0] ELSE o
        o2 == IF o1.HeaderRow = 0 /\ o1.FirstDataRow = 0
              THEN [o1 EXCEPT !.FirstDataRow = 2]
              ELSE o1
    IN  IF o2.HeaderRow > 0 /\ o2.FirstDataRow = 0
        THEN [o2 EXCEPT !.FirstDataRow = o2.HeaderRow + 1]
        ELSE o2

\* applyDefaults
applyDefaults(o) ==
    LET o1 == IF o.SheetIndex < 0 THEN [o EXCEPT !.SheetIndex = 0] ELSE o
        o2 == IF o1.HeaderRow = 0 /\ o1.FirstDataRow = 0
              THEN [o1 EXCEPT !.HeaderRow = 1, !.FirstDataRow = 2]
              ELSE o1
    IN  IF o2.HeaderRow > 0 /\ o2.FirstDataRow = 0
        THEN [o2 EXCEPT !.FirstDataRow = o2.HeaderRow + 1]
        ELSE o2

\* the option helpers Header, StartRow, Sheet, SheetAt, ErrCol
Header(o, row) ==
    IF row > 0 /\ o.FirstDataRow = 0
    THEN [o EXCEPT !.HeaderRow = row, !.FirstDataRow = row + 1]
    ELSE [o EXCEPT !.HeaderRow = row]

StartRow(o, row) == [o EXCEPT !.FirstDataRow = row]

Sheet(o, name) == [o EXCEPT !.SheetName = name]

SheetAt(o, idx) == [o EXCEPT !.SheetIndex = idx]

ErrCol(o, idx) == [o EXCEPT !.ErrorColumnIndex = idx]

\* a caller's RowIndexMapper: "nil" for none, "m" for one sample function
\* of (excelRow, dataIdx)
ApplyRowIndexMapper(m, excelRow, dataIdx) == excelRow * 10 + dataIdx

\* A workbook is [names |-> <<sheet name, ...>>, sheets |-> [name -> rows]].
\* resolveSheet: the sheet name and the options with sheetResolved set
resolveSheet(f, o) ==
    IF o.sheetResolved # "" THEN [err |-> "nil", sheet |-> o.sheetResolved, o |-> o]
    ELSE IF o.SheetName # ""
    THEN [err |-> "nil", sheet |-> o.SheetName, o |-> [o EXCEPT !.sheetResolved = o.SheetName]]
    ELSE IF Len(f.names) = 0 THEN [err |-> "no sheets", sheet |-> "", o |-> o]
    ELSE IF o.SheetIndex < 0 \/ o.SheetIndex >= Len(f.names)
    THEN [err |-> "sheet index out of range", sheet |-> "", o |-> o]
    ELSE [err |-> "nil", sheet |-> f.names[o.SheetIndex + 1],
          o |-> [o EXCEPT !.sheetResolved = f.names[o.SheetIndex + 1]]]

\* excelize's f.Rows(sheet) fails for a sheet the workbook does not hold
SheetExists(f, sheet) == sheet \in DOMAIN f.sheets

\* a mutant of isRowEmpty: the cells are compared without trimming
isRowEmptyUntrimmed(cols) == ~ \E i \in 1..Len(cols) : cols[i] # <<>>

isRowEmpty(cols) == ~ \E i \in 1..Len(cols) : TrimSpace(cols[i]) # <<>>

(***************************************************************************)
(* The record type, the workbooks and the options the readers are run on   *)
(***************************************************************************)
\* type Item struct {
\*     Code string `excel:"Id,No" required:"true"`
\*     Qty  int    `col:"2" validate:"required"`
\* }
ItemStruct ==
    << StructField("Code", "string", <<"I","d",",","N","o">>, <<>>, <<>>, <<"t","r","u","e">>, ""),
       StructField("Qty", "int", <<>>, <<"2">>, <<>>, <<>>, "required") >>

Row(cols) == [cols |-> cols, bad |-> FALSE]

\* a row whose cells cannot be read: rows.Columns() returns an error
BadRow == [cols |-> <<>>, bad |-> TRUE]

\* first rows of a sheet: header texts, a repeated header key, an unreadable row
HeaderSamples ==
    {Row(<< <<"I","d">>, <<"Q","t","y">> >>),
     Row(<< <<"I","d">>, <<" ","I","D"," ">> >>),
     Row(<< <<"x">>, <<"Q","t","y">> >>),
     BadRow}

DataRowSamples ==
    {Row(<<>>),
     Row(<< <<" ">>, <<>> >>),
     Row(<< <<"a">>, <<"7">> >>),
     Row(<< <<"a">>, <<"x">> >>),
     Row(<< <<>>, <<"x">> >>),
     Row(<< <<"b">> >>),
     BadRow}

SeqsUpTo(S, n) == UNION {[1..k -> S] : k \in 0..n}

\* the sheets: none of the rows, or a header row and up to MaxDataRows rows
SheetSamples == {<<>>} \cup {<<h>> \o d : h \in HeaderSamples, d \in SeqsUpTo(DataRowSamples, MaxDataRows)}

Books == {[names |-> <<"S1">>, sheets |-> [n \in {"S1"} |-> sh]] : sh \in SheetSamples}

\* the options of one call, as the option helpers leave them
OptionSamples ==
    {[ZeroOptions EXCEPT !.streamHandler = TRUE],
     [ZeroOptions EXCEPT !.streamHandler = TRUE, !.GoValidator = TRUE],
     [StartRow(ZeroOptions, 1) EXCEPT !.streamHandler = TRUE, !.GoValidator = TRUE,
                                      !.RowIndexMapper = "m"],
     [Header(ZeroOptions, 2) EXCEPT !.streamHandler = TRUE, !.RowIndexMapper = "m"],
     [StartRow(Header(ZeroOptions, 1), 3) EXCEPT !.streamHandler = TRUE],
     [SheetAt(ZeroOptions, 1) EXCEPT !.streamHandler = TRUE],
     [Sheet(ZeroOptions, "Zz") EXCEPT !.streamHandler = TRUE],
     ZeroOptions}

\* what a RowHandler may return: nil, or an error that stops the stream
HandlerReturns == {"nil", "stop"}

(***************************************************************************)
(* Core: read and stream                                                   *)
(***************************************************************************)
VARIABLES book, opts, metaCache, batch, stream

pvars == <<book, opts, metaCache, batch, stream>>

\* getTypeMeta: the cached descriptors of the type, built and stored on a miss.
\* metaCache is <<>> before the type's first use and <<meta>> after.
getTypeMeta(cache, struct) ==
    IF cache # <<>> THEN [meta |-> cache[1], cache |-> cache]
    ELSE [meta |-> BuildTypeMeta(struct), cache |-> <<BuildTypeMeta(struct)>>]

\* a failed start: the error, nothing resolved
SetupFailure(rs, e) ==
    [err |-> e, o |-> rs.o, sheet |-> rs.sheet, headerMap |-> <<>>, headerIndex |-> <<>>]

\* a mutant of HeaderSetups: a header row that cannot be parsed is taken as no header
HeaderSetupsLenient(rs, ph) ==
    {[err |-> "nil", o |-> rs.o, sheet |-> rs.sheet, headerMap |-> ph.m,
      headerIndex |-> hi] : hi \in HeaderIndexChoices(ph.m)}

\* the header map ph parsed, indexed: one outcome per order Go may range in
HeaderSetups(rs, ph) ==
    IF ~ph.ok THEN {SetupFailure(rs, ph.err)}
    ELSE {[err |-> "nil", o |-> rs.o, sheet |-> rs.sheet, headerMap |-> ph.m,
           headerIndex |-> hi] : hi \in HeaderIndexChoices(ph.m)}

\* after resolveSheet: the header row is parsed when one is configured
SetupsAfterResolve(f, rs) ==
    IF rs.err # "nil" THEN {SetupFailure(rs, rs.err)}
    ELSE IF rs.o.HeaderRow > 0
    THEN IF ~SheetExists(f, rs.sheet) THEN {SetupFailure(rs, "sheet does not exist")}
         ELSE HeaderSetups(rs, parseHeader(f.sheets[rs.sheet], rs.o.HeaderRow))
    ELSE {[err |-> "nil", o |-> rs.o, sheet |-> rs.sheet, headerMap |-> <<>>,
           headerIndex |-> <<>>]}

\* The start of readFromExcelFile and of streamFromExcelFile: the sheet, the
\* header map and the header index.
ReaderSetups(f, o) == SetupsAfterResolve(f, resolveSheet(f, o))

LogicalIndex(o, rowIdx, dataIdx) ==
    IF o.RowIndexMapper # "nil" THEN ApplyRowIndexMapper(o.RowIndexMapper, rowIdx, dataIdx)
    ELSE dataIdx

IdleReader ==
    [pc |-> "idle", o |-> ZeroOptions, sheet |-> "", headerMap |-> <<>>, fieldColIndex |-> <<>>,
     rowIdx |-> 0, dataIdx |-> 0, result |-> <<>>, errs |-> <<>>, fatalErr |-> "nil",
     ret |-> <<>>, calls |-> <<>>, log |-> <<>>]

PipelineInit ==
    /\ book \in Books
    /\ opts \in OptionSamples
    /\ metaCache = <<>>
    /\ batch = IdleReader
    /\ stream = IdleReader

\* a reader's state when its start failed with error e: it has returned
ReaderFailed(rd, o, e) ==
    [rd EXCEPT !.pc = "done", !.o = o, !.ret = <<[result |-> <<>>, errs |-> <<>>, err |-> e]>>]

\* a reader's state at the head of its row loop
ReaderStarted(rd, su, meta) ==
    [rd EXCEPT !.pc = "rows", !.o = su.o, !.sheet = su.sheet, !.headerMap = su.headerMap,
               !.fieldColIndex = buildFieldColIndex(meta, su.headerIndex)]

\* the entry a reader keeps of one mapRow call
MapLog(rowIdx, logicalIdx, mr) ==
    [rowIdx |-> rowIdx, logicalIdx |-> logicalIdx, ok |-> mr.ok, obj |-> mr.obj,
     rowErrs |-> mr.rowErrs]

\* ReadFile / Read up to the row loop of readFromExcelFile
ReadFile ==
    /\ batch.pc = "idle"
    /\ stream.pc # "rows"
    /\ \E su \in ReaderSetups(book, applyDefaults(opts)) :
          IF su.err # "nil"
          THEN /\ batch' = ReaderFailed(batch, su.o, su.err)
               /\ UNCHANGED metaCache
          ELSE \E gm \in {getTypeMeta(metaCache, ItemStruct)} :
               /\ metaCache' = gm.cache
               /\ IF ~SheetExists(book, su.sheet)
                  THEN batch' = ReaderFailed(batch, su.o, "sheet does not exist")
                  ELSE batch' = ReaderStarted(batch, su, gm.meta)
    /\ UNCHANGED <<book, opts, stream>>

\* one iteration of readFromExcelFile's loop over the rows
BatchRow ==
    /\ batch.pc = "rows"
    /\ batch.rowIdx < Len(book.sheets[batch.sheet])
    /\ \E rowIdx \in {batch.rowIdx + 1} :
       \E row \in {book.sheets[batch.sheet][rowIdx]} :
           IF row.bad
           THEN /\ batch' = [batch EXCEPT !.rowIdx = rowIdx,
                                !.errs = Append(@, BareRowError(rowIdx, 0, "read row"))]
                /\ UNCHANGED metaCache
           ELSE IF rowIdx < batch.o.FirstDataRow \/ isRowEmpty(row.cols)
           THEN /\ batch' = [batch EXCEPT !.rowIdx = rowIdx]
                /\ UNCHANGED metaCache
           ELSE \E logicalIdx \in {LogicalIndex(batch.o, rowIdx, batch.dataIdx + 1)} :
                \E mr \in {mapRow(ItemStruct, metaCache[1], batch.fieldColIndex, batch.headerMap,
                                  batch.o, rowIdx, logicalIdx, row.cols)} :
                    /\ batch' = [batch EXCEPT
                                    !.rowIdx = rowIdx,
                                    !.dataIdx = @ + 1,
                                    !.errs = IF Len(mr.rowErrs) > 0 THEN @ \o mr.rowErrs ELSE @,
                                    !.result = IF mr.ok THEN Append(@, mr.obj) ELSE @,
                                    !.log = Append(@, MapLog(rowIdx, logicalIdx, mr))]
                    /\ metaCache' = <<mr.meta>>
    /\ UNCHANGED <<book, opts, stream>>

\* readFromExcelFile returns after the last row
BatchReturn ==
    /\ batch.pc = "rows"
    /\ batch.rowIdx = Len(book.sheets[batch.sheet])
    /\ batch' = [batch EXCEPT !.pc = "done",
                    !.ret = <<[result |-> batch.result, errs |-> batch.errs, err |-> "nil"]>>]
    /\ UNCHANGED <<book, opts, metaCache, stream>>

\* Stream up to the row loop of streamFromExcelFile
Stream ==
    /\ stream.pc = "idle"
    /\ batch.pc # "rows"
    /\ IF ~applyDefaults(opts).streamHandler
       THEN /\ stream' = ReaderFailed(stream, applyDefaults(opts), "handler required")
            /\ UNCHANGED metaCache
       ELSE \E su \in ReaderSetups(book, applyDefaults(opts)) :
          IF su.err # "nil"
          THEN /\ stream' = ReaderFailed(stream, su.o, su.err)
               /\ UNCHANGED metaCache
          ELSE \E gm \in {getTypeMeta(metaCache, ItemStruct)} :
               /\ metaCache' = gm.cache
               /\ IF ~SheetExists(book, su.sheet)
                  THEN stream' = ReaderFailed(stream, su.o, "sheet does not exist")
                  ELSE stream' = ReaderStarted(stream, su, gm.meta)
    /\ UNCHANGED <<book, opts, batch>>

\* a mutant of StreamLoopRuns: a handler error does not leave the loop
StreamLoopRunsOn(rd, n) == rd.rowIdx < n

\* whether streamFromExcelFile's loop takes another row of the n the sheet has:
\* rows.Next() after no break
StreamLoopRuns(rd, n) == rd.fatalErr = "nil" /\ rd.rowIdx < n

\* one call of the handler, as the loop makes it, and what it returned
HandlerCall(rowIdx, logicalIdx, obj, rowErrs, hErr) ==
    [rowIdx |-> rowIdx, logicalIdx |-> logicalIdx, obj |-> obj, rowErrs |-> rowErrs, ret |-> hErr]

\* one iteration of streamFromExcelFile's loop; the handler, when the row is
\* delivered, returns hErr
StreamRow ==
    /\ stream.pc = "rows"
    /\ StreamLoopRuns(stream, Len(book.sheets[stream.sheet]))
    /\ \E rowIdx \in {stream.rowIdx + 1} :
       \E row \in {book.sheets[stream.sheet][rowIdx]} :
            IF row.bad
            THEN /\ \E hErr \in HandlerReturns :
                      stream' = [stream EXCEPT
                                  !.rowIdx = rowIdx,
                                  !.errs = Append(@, BareRowError(rowIdx, 0, "read row")),
                                  !.calls = Append(@, HandlerCall(rowIdx, -1, <<>>,
                                                <<BareRowError(rowIdx, 0, "read row")>>, hErr)),
                                  !.fatalErr = hErr]
                 /\ UNCHANGED metaCache
            ELSE IF rowIdx < stream.o.FirstDataRow \/ isRowEmpty(row.cols)
            THEN /\ stream' = [stream EXCEPT !.rowIdx = rowIdx]
                 /\ UNCHANGED metaCache
            ELSE \E logicalIdx \in {LogicalIndex(stream.o, rowIdx, stream.dataIdx + 1)} :
                 \E mr \in {mapRow(ItemStruct, metaCache[1], stream.fieldColIndex,
                                   stream.headerMap, stream.o, rowIdx, logicalIdx, row.cols)} :
                     /\ \E hErr \in HandlerReturns :
                          stream' = [stream EXCEPT
                                      !.rowIdx = rowIdx,
                                      !.dataIdx = @ + 1,
                                      !.errs = IF Len(mr.rowErrs) > 0 THEN @ \o mr.rowErrs ELSE @,
                                      !.calls = Append(@, HandlerCall(rowIdx, logicalIdx,
                                                    IF mr.ok THEN <<mr.obj>> ELSE <<>>,
                                                    mr.rowErrs, hErr)),
                                      !.log = Append(@, MapLog(rowIdx, logicalIdx, mr)),
                                      !.fatalErr = hErr]
                     /\ metaCache' = <<mr.meta>>
    /\ UNCHANGED <<book, opts, batch>>

\* streamFromExcelFile returns: after the last row, or after the handler's error
StreamReturn ==
    /\ stream.pc = "rows"
    /\ ~StreamLoopRuns(stream, Len(book.sheets[stream.sheet]))
    /\ stream' = [stream EXCEPT !.pc = "done",
                     !.ret = <<[result |-> <<>>, errs |-> stream.errs, err |-> stream.fatalErr]>>]
    /\ UNCHANGED <<book, opts, metaCache, batch>>

(***************************************************************************)
(* Column resolution on its own: one struct field with drawn tags is       *)
(* resolved against a drawn header row.                                    *)
(***************************************************************************)
VARIABLES rField, rHeader, rPc, rIndex, rCols

rvars == <<rField, rHeader, rPc, rIndex, rCols>>

\* tag texts a caller may write
ColTagSamples == {<<>>, <<"1">>, <<" ", "2">>, <<"0">>, <<"x">>}

ExcelColTagSamples == {<<>>, <<"c">>, <<" ", "B">>, <<"A", "A">>, <<"C", "1">>}

ExcelTagSamples ==
    {<<>>, <<"I", "d">>, <<"N", "o", ",", "I", "d">>, <<" ", "i", "D", " ", ",", ",", "Z">>}

HeaderRowSamples ==
    {<<>>,
     << <<"I", "d">>, <<"N", "o">> >>,
     << <<"N", "o">>, <<" ", "I", "D", " ">> >>,
     << <<"x">>, <<>>, <<"y">>, <<"i", "d">> >>,
     << <<"I", "d">>, <<"n", "o">>, <<"i", "d">>, <<"N", "O">> >>}

ResolveInit ==
    /\ rField \in {StructField("F", "string", e, c, l, <<>>, "") :
                     e \in ExcelTagSamples, c \in ColTagSamples, l \in ExcelColTagSamples}
    /\ rHeader \in HeaderRowSamples
    /\ rPc = "tags"
    /\ rIndex = <<>>
    /\ rCols = <<>>

\* the header row is read and indexed, as readFromExcelFile does before resolving
ResolveHeader ==
    /\ rPc = "tags"
    /\ \E hi \in HeaderIndexChoices(parseHeader(<<[cols |-> rHeader, bad |-> FALSE]>>, 1).m) :
          rIndex' = hi
    /\ rPc' = "header"
    /\ UNCHANGED <<rField, rHeader, rCols>>

\* getTypeMeta builds the descriptor, buildFieldColIndex resolves it
ResolveColumns ==
    /\ rPc = "header"
    /\ rCols' = buildFieldColIndex(BuildTypeMeta(<<rField>>), rIndex)
    /\ rPc' = "resolved"
    /\ UNCHANGED <<rField, rHeader, rIndex>>

(***************************************************************************)
(* Error annotation: WriteErrors, WriteErrorsTo, writeErrorsToExcelFile    *)
(***************************************************************************)
\* An annotated document is [names |-> <<sheet name, ...>>,
\* sheets |-> [name -> [<<column, row>> -> text]]], columns and rows from 1,
\* the empty text for a cell never written.
DocCoords == (1..3) \X (1..2)

\* fmt.Sprintf("%s%d", errColLetter, re.ExcelRowIndex)
CellName(letter, row) == [col |-> letter, row |-> row]

\* excelize's reading of a cell name: <<column, row>>, <<>> for a name it rejects
CellCoords(cell) ==
    IF cell.row < 1 \/ colIndexFromLetter(cell.col) < 0 THEN <<>>
    ELSE <<colIndexFromLetter(cell.col) + 1, cell.row>>

\* f.GetCellValue(sheet, cell), its error dropped: the empty text on any failure
GetCellValue(f, sheet, cell) ==
    IF sheet \in DOMAIN f.sheets /\ CellCoords(cell) \in DOMAIN f.sheets[sheet]
    THEN f.sheets[sheet][CellCoords(cell)]
    ELSE <<>>

\* f.SetCellValue(sheet, cell, v): fails for a sheet the file does not hold and
\* for a cell name excelize rejects
SetCellValue(f, sheet, cell, v) ==
    IF sheet \notin DOMAIN f.sheets THEN [err |-> "sheet does not exist", f |-> f]
    ELSE IF CellCoords(cell) \notin DOMAIN f.sheets[sheet]
    THEN [err |-> "invalid cell", f |-> f]
    ELSE [err |-> "nil", f |-> [f EXCEPT !.sheets[sheet][CellCoords(cell)] = v]]

\* a mutant of AnnotatedText: the message replaces what the cell holds
AnnotatedTextOverwriting(oldVal, msg) == <<msg>>

\* the text the loop of writeErrorsToExcelFile puts in a cell holding oldVal
AnnotatedText(oldVal, msg) ==
    IF oldVal # <<>> THEN oldVal \o <<"\n">> \o <<msg>> ELSE <<msg>>

\* a mutant of ErrColIdx: the one-based number is taken as the index
ErrColIdxOneBased(o) == o.ErrorColumnIndex

\* errColIdx of writeErrorsToExcelFile
ErrColIdx(o) == o.ErrorColumnIndex - 1

\* a mutant of ErrColMissing: the error column is never checked
ErrColUnchecked(o) == FALSE

\* the check WriteErrors and WriteErrorsTo make of the error column
ErrColMissing(o) == o.ErrorColumnIndex <= 0

\* one iteration of the loop of writeErrorsToExcelFile on the open file f
AnnotateOne(f, sheet, o, re) ==
    IF re.ExcelRowIndex <= 0 THEN [err |-> "nil", f |-> f]
    ELSE LET cell == CellName(colLetter(ErrColIdx(o)), re.ExcelRowIndex)
         IN  SetCellValue(f, sheet, cell,
                          AnnotatedText(GetCellValue(f, sheet, cell), re.Err))

\* a row error as the annotator reads it
RowErr(row, msg) == [ExcelRowIndex |-> row, Err |-> msg]

\* error lists a caller may pass
ErrListSamples ==
    {<<>>,
     <<RowErr(1, "e1")>>,
     <<RowErr(1, "e2"), RowErr(0, "e0"), RowErr(1, "e1")>>,
     <<RowErr(2, "e3"), RowErr(1, "e1")>>,
     <<RowErr(0, "e0")>>}

\* options a caller may pass to an annotate call
AnnotateOptionSamples ==
    {ZeroOptions,
     ErrCol(ZeroOptions, -1),
     ErrCol(ZeroOptions, 2),
     ErrCol(SheetAt(ZeroOptions, 1), 2),
     ErrCol(Sheet(ZeroOptions, "S2"), 1),
     ErrCol(Sheet(ZeroOptions, "Zz"), 2),
     ErrCol(SheetAt(ZeroOptions, 2), 2)}

\* documents to annotate: the error column of the first sheet empty or not
DocSamples ==
    {[names |-> <<"S1", "S2">>,
      sheets |-> [n \in {"S1", "S2"} |->
                    [c \in DocCoords |->
                        IF c = <<1, 1>> THEN <<"a">>
                        ELSE IF c = <<2, 1>> /\ n = "S1" THEN old
                        ELSE IF c = <<3, 2>> /\ n = "S2" THEN <<"z">>
                        ELSE <<>>]]] : old \in {<<>>, <<"o", "l", "d">>}}

VARIABLES aDisk, aInit, aWritten, aCall, aCount

avars == <<aDisk, aInit, aWritten, aCall, aCount>>

\* no annotate call under way
IdleCall ==
    [pc |-> "idle", kind |-> "", errs |-> <<>>, o |-> ZeroOptions, sheet |-> "",
     i |-> 0, f |-> <<>>, before |-> <<>>, sink |-> <<>>, ret |-> "nil"]

AnnotateInit ==
    /\ aDisk \in DocSamples
    /\ aInit = aDisk
    /\ aWritten = [t \in {"S1", "S2"} \X DocCoords |-> <<>>]
    /\ aCall = IdleCall
    /\ aCount = 0

\* a call that returned ret before the loop
CallReturned(kind, errs, o, doc, sink, ret) ==
    [IdleCall EXCEPT !.pc = "done", !.kind = kind, !.errs = errs, !.o = o,
                     !.before = <<doc>>, !.sink = sink, !.ret = ret]

\* writeErrorsToExcelFile up to its loop, on the file f just opened
CallOpened(kind, errs, o, doc, rs) ==
    IF rs.err # "nil" THEN CallReturned(kind, errs, o, doc, <<>>, rs.err)
    ELSE [IdleCall EXCEPT !.pc = "loop", !.kind = kind, !.errs = errs, !.o = rs.o,
                          !.sheet = rs.sheet, !.f = <<doc>>, !.before = <<doc>>]

\* WriteErrors(path, errs, opts...) up to the loop of writeErrorsToExcelFile
WriteErrors ==
    /\ aCall.pc \in {"idle", "done"}
    /\ aCount < MaxCalls
    /\ \E errs \in ErrListSamples, o \in AnnotateOptionSamples :
          aCall' = IF Len(errs) = 0 THEN CallReturned("path", errs, o, aDisk, <<>>, "nil")
                   ELSE IF ErrColMissing(o)
                   THEN CallReturned("path", errs, o, aDisk, <<>>, "config error")
                   ELSE CallOpened("path", errs, o, aDisk, resolveSheet(aDisk, o))
    /\ aCount' = aCount + 1
    /\ UNCHANGED <<aDisk, aInit, aWritten>>

\* WriteErrorsTo(w, r, errs, opts...) with r reading the document, up to the
\* loop of writeErrorsToExcelFile
WriteErrorsTo ==
    /\ aCall.pc \in {"idle", "done"}
    /\ aCount < MaxCalls
    /\ \E errs \in ErrListSamples, o \in AnnotateOptionSamples :
          aCall' = IF Len(errs) = 0 THEN CallReturned("to", errs, o, aDisk, <<aDisk>>, "nil")
                   ELSE IF ErrColMissing(o)
                   THEN CallReturned("to", errs, o, aDisk, <<>>, "config error")
                   ELSE CallOpened("to", errs, o, aDisk, resolveSheet(aDisk, o))
    /\ aCount' = aCount + 1
    /\ UNCHANGED <<aDisk, aInit, aWritten>>

\* one iteration of the loop of writeErrorsToExcelFile
AnnotateRow ==
    /\ aCall.pc = "loop"
    /\ aCall.i < Len(aCall.errs)
    /\ \E r \in {AnnotateOne(aCall.f[1], aCall.sheet, aCall.o, aCall.errs[aCall.i + 1])} :
          aCall' = IF r.err # "nil"
                   THEN [aCall EXCEPT !.pc = "done", !.ret = r.err, !.f = <<>>]
                   ELSE [aCall EXCEPT !.i = @ + 1, !.f = <<r.f>>]
    /\ UNCHANGED <<aDisk, aInit, aWritten, aCount>>

\* the messages of errs for one row, in the order of the list
RECURSIVE MessagesFor(_, _)
MessagesFor(errs, row) ==
    IF errs = <<>> THEN <<>>
    ELSE (IF Head(errs).ExcelRowIndex = row THEN <<Head(errs).Err>> ELSE <<>>)
         \o MessagesFor(Tail(errs), row)

\* after the loop: f.Write(w) for WriteErrorsTo, f.Save() for WriteErrors
AnnotateSave ==
    /\ aCall.pc = "loop"
    /\ aCall.i = Len(aCall.errs)
    /\ aCall' = [aCall EXCEPT !.pc = "done", !.ret = "nil", !.f = <<>>,
                              !.sink = IF aCall.kind = "to" THEN aCall.f ELSE <<>>]
    /\ aDisk' = IF aCall.kind = "to" THEN aDisk ELSE aCall.f[1]
    /\ aWritten' = IF aCall.kind = "to" THEN aWritten
                   ELSE [t \in DOMAIN aWritten |->
                           IF t[1] = aCall.sheet /\ t[2][1] = aCall.o.ErrorColumnIndex
                           THEN aWritten[t] \o MessagesFor(aCall.errs, t[2][2])
                           ELSE aWritten[t]]
    /\ UNCHANGED <<aInit, aCount>>

(***************************************************************************)
(* Mapping one row of cell texts into one record                           *)
(***************************************************************************)
\* record types with one mapped field V, read from column A
ValueStruct(kind, fmt) ==
    << [StructField("V", kind, <<>>, <<"1">>, <<>>, <<>>, "") EXCEPT !.fmt = fmt] >>

\* cell texts written as numbers
NumberTextSamples ==
    {<<"7">>, <<" ", "1", "2", " ">>, <<"+", "5">>, <<"-", "1">>, <<"0">>,
     <<"1", "2", "7">>, <<"1", "2", "8">>, <<"-", "1", "2", "8">>, <<"-", "1", "2", "9">>,
     <<"2", "5", "5">>, <<"2", "5", "6">>, <<"3", "0", "0">>,
     <<"3", "2", "7", "6", "7">>, <<"3", "2", "7", "6", "8">>, <<"-", "3", "2", "7", "6", "9">>,
     <<"6", "5", "5", "3", "5">>, <<"6", "5", "5", "3", "6">>,
     <<"9","9","9","9","9","9","9","9","9","9","9","9","9","9","9","9","9","9","9","9">>,
     <<"-","9","9","9","9","9","9","9","9","9","9","9","9","9","9","9","9","9","9","9","9">>,
     <<"x">>, <<"1", "x">>}

\* cell texts of a date column: serial numbers, then dates and other text
SerialTextSamples ==
    {<<"4", "5", "0", "0", "0">>,
     <<"1">>,
     <<"2">>,
     <<"6", "1">>,
     <<"3", "6", "6">>,
     <<"+", "7">>,
     <<"0">>,
     <<"-", "1">>,
     <<"-", "0">>,
     <<"0", ".", "0">>,
     <<"-", "0", ".", "5">>,
     <<"0", ".", "5">>,
     <<"1", ".", "5">>,
     <<"6", "0", ".", "7", "5">>,
     <<"0", ".", "0", "0", "0", "1">>,
     <<".", "5">>}

DateTextSamples ==
    {<<"2", "0", "2", "3", "-", "0", "3", "-", "1", "5">>,
     <<"1", "5", "/", "0", "3", "/", "2", "0", "2", "3">>,
     <<"2", "0", "2", "3", "-", "0", "2", "-", "3", "0">>,
     <<"2", "0", "2", "3", "-", "0", "3", "-", "1", "5", "T", "1", "0", ":", "3", "0", ":", "0", "0", "Z">>,
     <<"0", "3", "/", "1", "5", "/", "2", "0", "2", "3">>,
     <<"1", "5", "-", "0", "3", "-", "2", "0", "2", "3", " ", "9", ":", "0", "5">>,
     <<"x">>}

NumberStructSamples ==
    {ValueStruct(k, <<>>) : k \in IntKinds \cup UintKinds \cup {"string", "bool", "chan"}}

TimeStructSamples ==
    {ValueStruct("time", <<>>), ValueStruct("time", <<"0", "1", "/", "0", "2", "/", "2", "0", "0", "6">>), ValueStruct("float64", <<>>)}

\* type Noted struct {
\*     V    string `col:"1"`
\*     Note string `validate:"required"`
\* }
\* Note has no mapping tag, so the type's descriptors do not hold it
NotedStruct ==
    << StructField("V", "string", <<>>, <<"1">>, <<>>, <<>>, ""),
       StructField("Note", "string", <<>>, <<>>, <<>>, <<>>, "required") >>

\* a record type and a row of cells for it
RowInputSamples ==
    {<<st, <<t>>>> : st \in NumberStructSamples, t \in NumberTextSamples}
    \cup {<<st, <<t>>>> : st \in TimeStructSamples, t \in SerialTextSamples \cup DateTextSamples}
    \cup {<<NotedStruct, r>> : r \in {<< <<"7">> >>, << <<"a">>, <<"b">> >>, <<>>}}

VARIABLES cStruct, cRow, cOpts, cPc, cOut

cvars == <<cStruct, cRow, cOpts, cPc, cOut>>

MapRowInit ==
    /\ \E in \in RowInputSamples : cStruct = in[1] /\ cRow = in[2]
    /\ cOpts \in {applyDefaults(ZeroOptions), [applyDefaults(ZeroOptions) EXCEPT !.GoValidator = TRUE]}
    /\ cPc = "row"
    /\ cOut = <<>>

\* getTypeMeta, buildFieldColIndex without a header row, then mapRow on row 2
MapOneRow ==
    /\ cPc = "row"
    /\ \E meta \in {BuildTypeMeta(cStruct)} :
       \E mr \in {mapRow(cStruct, meta, buildFieldColIndex(meta, <<>>), <<>>, cOpts, 2, 1, cRow)} :
          cOut' = <<mr>>
    /\ cPc' = "mapped"
    /\ UNCHANGED <<cStruct, cRow, cOpts>>

(***************************************************************************)
(* StreamFile: the streaming pass over a file on disk, then the write-back *)
(***************************************************************************)
FileCoords == (1..3) \X (1..3)

\* rows of the file under the header row "Id", "Qty"
FileRowSamples ==
    {<< <<"a">>, <<"7">>, <<>> >>,
     << <<"a">>, <<"x">>, <<>> >>,
     << <<>>, <<"5">>, <<"o", "l", "d">> >>,
     << <<>>, <<>>, <<>> >>}

\* files of one sheet: the header row and two rows under it
FileSamples ==
    {[names |-> <<"S1">>,
      sheets |-> [n \in {"S1"} |->
                    [c \in FileCoords |->
                        IF c[2] = 1 THEN << <<"I", "d">>, <<"Q", "t", "y">>, <<>> >>[c[1]]
                        ELSE IF c[2] = 2 THEN r2[c[1]]
                        ELSE r3[c[1]]]]] : r2 \in FileRowSamples, r3 \in FileRowSamples}

\* the options of a StreamFile call
FileOptionSamples ==
    {[ErrCol(ZeroOptions, 3) EXCEPT !.streamHandler = TRUE],
     [ErrCol(ZeroOptions, 3) EXCEPT !.streamHandler = TRUE, !.GoValidator = TRUE],
     [ErrCol(Sheet(ZeroOptions, "S1"), 2) EXCEPT !.streamHandler = TRUE],
     [ErrCol(SheetAt(ZeroOptions, -1), 3) EXCEPT !.streamHandler = TRUE],
     [ErrCol(Sheet(ZeroOptions, "Zz"), 3) EXCEPT !.streamHandler = TRUE],
     [ZeroOptions EXCEPT !.streamHandler = TRUE],
     ErrCol(ZeroOptions, 3)}

\* the rows excelize's f.Rows(sheet) iterates: the cells of each row in order
FileRows(f, sheet) ==
    [r \in 1..3 |-> Row([c \in 1..3 |-> f.sheets[sheet][<<c, r>>]])]

\* the file as the readers see it
FileBook(f) == [names |-> f.names, sheets |-> [n \in DOMAIN f.sheets |-> FileRows(f, n)]]

\* the loop of writeErrorsToExcelFile, the first errs[1..i] done
RECURSIVE AnnotateAll(_, _, _, _, _)
AnnotateAll(r, sheet, o, errs, i) ==
    IF r.err # "nil" \/ i > Len(errs) THEN r
    ELSE AnnotateAll(AnnotateOne(r.f, sheet, o, errs[i]), sheet, o, errs, i + 1)

\* writeErrorsToExcelFile with w == nil: f.Save() after a loop without error
SaveAnnotated(disk, r) == IF r.err # "nil" THEN [err |-> r.err, f |-> disk] ELSE r

\* WriteErrors after its checks: the file opened, the sheet resolved
WriteResolved(disk, errs, rs) ==
    IF rs.err # "nil" THEN [err |-> rs.err, f |-> disk]
    ELSE SaveAnnotated(disk, AnnotateAll([err |-> "nil", f |-> disk], rs.sheet, rs.o, errs, 1))

\* WriteErrors(path, errs, opts...) as one call: its error and the file after it
WriteErrorsCall(disk, errs, o) ==
    IF Len(errs) = 0 THEN [err |-> "nil", f |-> disk]
    ELSE IF ErrColMissing(o) THEN [err |-> "config error", f |-> disk]
    ELSE WriteResolved(disk, errs, resolveSheet(disk, o))

\* the end of StreamFile after a streaming pass without error: the write-back
WriteBack(disk, allErrs, o, rawOpts) ==
    IF o.ErrorColumnIndex > 0 /\ Len(allErrs) > 0
    THEN WriteErrorsCall(disk, allErrs, rawOpts)
    ELSE [err |-> "nil", f |-> disk]

VARIABLES fDisk, fInit, fOpts, fMeta, fCall

fvars == <<fDisk, fInit, fOpts, fMeta, fCall>>

StreamFileInit ==
    /\ fDisk \in FileSamples
    /\ fInit = fDisk
    /\ fOpts \in FileOptionSamples
    /\ fMeta = <<>>
    /\ fCall = IdleReader

\* StreamFile up to the row loop of streamFromExcelFile
StreamFile ==
    /\ fCall.pc = "idle"
    /\ IF ~applyDefaults(fOpts).streamHandler
       THEN /\ fCall' = ReaderFailed(fCall, applyDefaults(fOpts), "handler required")
            /\ UNCHANGED fMeta
       ELSE \E su \in ReaderSetups(FileBook(fDisk), applyDefaults(fOpts)) :
          IF su.err # "nil"
          THEN /\ fCall' = ReaderFailed(fCall, su.o, su.err)
               /\ UNCHANGED fMeta
          ELSE \E gm \in {getTypeMeta(fMeta, ItemStruct)} :
               /\ fMeta' = gm.cache
               /\ IF ~SheetExists(fDisk, su.sheet)
                  THEN fCall' = ReaderFailed(fCall, su.o, "sheet does not exist")
                  ELSE fCall' = ReaderStarted(fCall, su, gm.meta)
    /\ UNCHANGED <<fDisk, fInit, fOpts>>

\* one iteration of streamFromExcelFile's loop inside StreamFile; the handler
\* returns hErr
StreamFileRow ==
    /\ fCall.pc = "rows"
    /\ StreamLoopRuns(fCall, 3)
    /\ \E rowIdx \in {fCall.rowIdx + 1} :
       \E row \in {FileRows(fDisk, fCall.sheet)[rowIdx]} :
            IF rowIdx < fCall.o.FirstDataRow \/ isRowEmpty(row.cols)
            THEN /\ fCall' = [fCall EXCEPT !.rowIdx = rowIdx]
                 /\ UNCHANGED fMeta
            ELSE \E logicalIdx \in {LogicalIndex(fCall.o, rowIdx, fCall.dataIdx + 1)} :
                 \E mr \in {mapRow(ItemStruct, fMeta[1], fCall.fieldColIndex,
                                   fCall.headerMap, fCall.o, rowIdx, logicalIdx, row.cols)} :
                     /\ \E hErr \in HandlerReturns :
                          fCall' = [fCall EXCEPT
                                      !.rowIdx = rowIdx,
                                      !.dataIdx = @ + 1,
                                      !.errs = IF Len(mr.rowErrs) > 0 THEN @ \o mr.rowErrs ELSE @,
                                      !.calls = Append(@, HandlerCall(rowIdx, logicalIdx,
                                                    IF mr.ok THEN <<mr.obj>> ELSE <<>>,
                                                    mr.rowErrs, hErr)),
                                      !.fatalErr = hErr]
                     /\ fMeta' = <<mr.meta>>
    /\ UNCHANGED <<fDisk, fInit, fOpts>>

\* StreamFile after streamFromExcelFile returned: the error of the pass is
\* returned at once, else the errors are written back and StreamFile returns
StreamFileReturn ==
    /\ fCall.pc = "rows"
    /\ ~StreamLoopRuns(fCall, 3)
    /\ IF fCall.fatalErr # "nil"
       THEN /\ fCall' = [fCall EXCEPT !.pc = "done",
                            !.ret = <<[result |-> <<>>, errs |-> fCall.errs,
                                       err |-> fCall.fatalErr]>>]
            /\ UNCHANGED fDisk
       ELSE \E wb \in {WriteBack(fDisk, fCall.errs, fCall.o, fOpts)} :
            /\ fCall' = [fCall EXCEPT !.pc = "done",
                            !.ret = <<[result |-> <<>>, errs |-> fCall.errs, err |-> wb.err]>>]
            /\ fDisk' = wb.f
    /\ UNCHANGED <<fInit, fOpts, fMeta>>

(***************************************************************************)
(* Concurrent reads of one record type: each read gets the descriptors     *)
(* from metaCache, resolves its own header row and maps one row; the reads *)
(* interleave at the accesses to the cache and to the descriptors.         *)
(***************************************************************************)
\* type Part struct {
\*     Name string `excel:"Name" validate:"required"`
\*     Size int    `excel:"Size" validate:"required"`
\* }
PartStruct ==
    << StructField("Name", "string", <<"N","a","m","e">>, <<>>, <<>>, <<>>, "required"),
       StructField("Size", "int", <<"S","i","z","e">>, <<>>, <<>>, <<>>, "required") >>

\* the header rows of the files read: the layouts differ
LayoutSamples ==
    {<< <<"N","a","m","e">>, <<"S","i","z","e">> >>,
     << <<"S","i","z","e">>, <<"N","a","m","e">> >>,
     << <<"S","i","z","e">> >>}

\* the data row under the header row
PartRowSamples ==
    {<< <<"a">>, <<"3">> >>,
     << <<"5">>, <<>> >>,
     << <<>>, <<"b">> >>}

\* the reads that run at the same time
Procs == {1, 2}

VARIABLES gHeap, gCache, gStores, gRead

gvars == <<gHeap, gCache, gStores, gRead>>

\* a read before its getTypeMeta call, on a file of a header row and one row
NewRead(header, cols) ==
    [pc |-> "load", header |-> header, cols |-> cols, meta |-> 0, headerMap |-> <<>>,
     fieldColIndex |-> <<>>, k |-> 0,
     acc |-> [v |-> ZeroStruct(PartStruct), rowErrs |-> <<>>, rowHasError |-> FALSE,
              meta |-> [Fields |-> <<>>]],
     out |-> <<>>]

\* gHeap holds the typeMeta values built so far, gCache the one metaCache
\* holds for the type (<<>> for none), gStores counts metaCache.Store calls
ConcurrentInit ==
    /\ gHeap = <<>>
    /\ gCache = <<>>
    /\ gStores = 0
    /\ gRead \in [Procs -> {NewRead(h, c) : h \in LayoutSamples, c \in PartRowSamples}]

\* the read once getTypeMeta returned the typeMeta at gHeap[id]: the header
\* row parsed and indexed as hi, the columns of the fields resolved
ReadResolved(rd, id, meta, hi) ==
    [rd EXCEPT !.pc = "fields", !.meta = id, !.k = 1,
               !.headerMap = [i \in 1..Len(rd.header) |-> TrimSpace(rd.header[i])],
               !.fieldColIndex = buildFieldColIndex(meta, hi)]

\* getTypeMeta: metaCache.Load(t); on a hit the cached typeMeta is returned
CacheLoad(g) ==
    /\ gRead[g].pc = "load"
    /\ IF gCache # <<>>
       THEN \E hi \in HeaderIndexChoices([i \in 1..Len(gRead[g].header) |->
                                            TrimSpace(gRead[g].header[i])]) :
               gRead' = [gRead EXCEPT ![g] = ReadResolved(@, gCache[1], gHeap[gCache[1]], hi)]
       ELSE gRead' = [gRead EXCEPT ![g].pc = "build"]
    /\ UNCHANGED <<gHeap, gCache, gStores>>

\* getTypeMeta after a miss: a new typeMeta is built, metaCache.Store(t, m)
\* puts it in the cache whatever the cache holds, and m is returned
CacheStore(g) ==
    /\ gRead[g].pc = "build"
    /\ \E m \in {BuildTypeMeta(PartStruct)} :
          /\ gHeap' = Append(gHeap, m)
          /\ \E hi \in HeaderIndexChoices([i \in 1..Len(gRead[g].header) |->
                                              TrimSpace(gRead[g].header[i])]) :
                gRead' = [gRead EXCEPT ![g] = ReadResolved(@, Len(gHeap) + 1, m, hi)]
    /\ gCache' = <<Len(gHeap) + 1>>
    /\ gStores' = gStores + 1

\* the context of the read's mapRow call: row 2, the first data row
ReadContext(rd) ==
    MapContext(PartStruct, rd.fieldColIndex, rd.headerMap, 2, 1, rd.cols)

\* one iteration of mapRow's loop over meta.Fields: it writes lastColIndex of
\* the descriptor the reads share
MapFieldStep(g) ==
    /\ gRead[g].pc = "fields"
    /\ gRead[g].k <= Len(gHeap[gRead[g].meta].Fields)
    /\ \E acc \in {MapField([gRead[g].acc EXCEPT !.meta = gHeap[gRead[g].meta]],
                            gRead[g].k, ReadContext(gRead[g]))} :
          /\ gRead' = [gRead EXCEPT ![g].acc = acc, ![g].k = @ + 1]
          /\ gHeap' = [gHeap EXCEPT ![gRead[g].meta] = acc.meta]
    /\ UNCHANGED <<gCache, gStores>>

\* mapRow after the loop: the validator runs, its failures are given the
\* lastColIndex the descriptors hold now, and mapRow returns
ValidateStep(g) ==
    /\ gRead[g].pc = "fields"
    /\ gRead[g].k > Len(gHeap[gRead[g].meta].Fields)
    /\ \E acc \in {ValidateRow(PartStruct, [ZeroOptions EXCEPT !.GoValidator = TRUE],
                               [gRead[g].acc EXCEPT !.meta = gHeap[gRead[g].meta]],
                               ReadContext(gRead[g]))} :
          gRead' = [gRead EXCEPT ![g].pc = "done", ![g].acc = acc,
                                 ![g].out = <<MapRowResult(PartStruct, acc)>>]
    /\ UNCHANGED <<gHeap, gCache, gStores>>

(***************************************************************************)
(* Specifications                                                          *)
(***************************************************************************)
vars == <<rvars, pvars, avars, cvars, fvars, gvars>>

ResolveIdle ==
    /\ rField = StructField("F", "string", <<>>, <<>>, <<>>, <<>>, "")
    /\ rHeader = <<>>
    /\ rPc = "off"
    /\ rIndex = <<>>
    /\ rCols = <<>>

PipelineIdle ==
    /\ book = [names |-> <<>>, sheets |-> <<>>]
    /\ opts = ZeroOptions
    /\ metaCache = <<>>
    /\ batch = [IdleReader EXCEPT !.pc = "off"]
    /\ stream = [IdleReader EXCEPT !.pc = "off"]

AnnotateIdle ==
    /\ aDisk = [names |-> <<>>, sheets |-> <<>>]
    /\ aInit = aDisk
    /\ aWritten = <<>>
    /\ aCall = [IdleCall EXCEPT !.pc = "off"]
    /\ aCount = 0

MapRowIdle ==
    /\ cStruct = <<>>
    /\ cRow = <<>>
    /\ cOpts = ZeroOptions
    /\ cPc = "off"
    /\ cOut = <<>>

StreamFileIdle ==
    /\ fDisk = [names |-> <<>>, sheets |-> <<>>]
    /\ fInit = fDisk
    /\ fOpts = ZeroOptions
    /\ fMeta = <<>>
    /\ fCall = [IdleReader EXCEPT !.pc = "off"]

ConcurrentIdle ==
    /\ gHeap = <<>>
    /\ gCache = <<>>
    /\ gStores = 0
    /\ gRead = <<>>

\* the readers: one ReadFile and one Stream on the same workbook with the same
\* options, one after the other in either order
Init == PipelineInit /\ ResolveIdle /\ AnnotateIdle /\ MapRowIdle /\ StreamFileIdle /\ ConcurrentIdle

Next ==
    \/ ReadFile /\ UNCHANGED <<rvars, avars, cvars, fvars, gvars>>
    \/ BatchRow /\ UNCHANGED <<rvars, avars, cvars, fvars, gvars>>
    \/ BatchReturn /\ UNCHANGED <<rvars, avars, cvars, fvars, gvars>>
    \/ Stream /\ UNCHANGED <<rvars, avars, cvars, fvars, gvars>>
    \/ StreamRow /\ UNCHANGED <<rvars, avars, cvars, fvars, gvars>>
    \/ StreamReturn /\ UNCHANGED <<rvars, avars, cvars, fvars, gvars>>

Spec == Init /\ [][Next]_vars

\* column resolution of one drawn field against one drawn header row
NextResolve ==
    \/ ResolveHeader /\ UNCHANGED <<pvars, avars, cvars, fvars, gvars>>
    \/ ResolveColumns /\ UNCHANGED <<pvars, avars, cvars, fvars, gvars>>

InitResolve == ResolveInit /\ PipelineIdle /\ AnnotateIdle /\ MapRowIdle /\ StreamFileIdle /\ ConcurrentIdle

SpecResolve == InitResolve /\ [][NextResolve]_vars

\* annotate calls on one document, one after the other
NextAnnotate ==
    \/ WriteErrors /\ UNCHANGED <<pvars, rvars, cvars, fvars, gvars>>
    \/ WriteErrorsTo /\ UNCHANGED <<pvars, rvars, cvars, fvars, gvars>>
    \/ AnnotateRow /\ UNCHANGED <<pvars, rvars, cvars, fvars, gvars>>
    \/ AnnotateSave /\ UNCHANGED <<pvars, rvars, cvars, fvars, gvars>>

InitAnnotate == AnnotateInit /\ PipelineIdle /\ ResolveIdle /\ MapRowIdle /\ StreamFileIdle /\ ConcurrentIdle

SpecAnnotate == InitAnnotate /\ [][NextAnnotate]_vars

\* one row of drawn cell texts mapped into a record of a drawn type
NextMapRow == MapOneRow /\ UNCHANGED <<pvars, rvars, avars, fvars, gvars>>

InitMapRow == MapRowInit /\ PipelineIdle /\ ResolveIdle /\ AnnotateIdle /\ StreamFileIdle /\ ConcurrentIdle

SpecMapRow == InitMapRow /\ [][NextMapRow]_vars

\* one StreamFile call on a file on disk
NextStreamFile ==
    \/ StreamFile /\ UNCHANGED <<pvars, rvars, avars, cvars, gvars>>
    \/ StreamFileRow /\ UNCHANGED <<pvars, rvars, avars, cvars, gvars>>
    \/ StreamFileReturn /\ UNCHANGED <<pvars, rvars, avars, cvars, gvars>>

InitStreamFile == StreamFileInit /\ PipelineIdle /\ ResolveIdle /\ AnnotateIdle /\ MapRowIdle /\ ConcurrentIdle

SpecStreamFile == InitStreamFile /\ [][NextStreamFile]_vars

\* two reads of the same record type running at the same time
NextConcurrent ==
    \/ \E g \in Procs : CacheLoad(g) /\ UNCHANGED <<pvars, rvars, avars, cvars, fvars>>
    \/ \E g \in Procs : CacheStore(g) /\ UNCHANGED <<pvars, rvars, avars, cvars, fvars>>
    \/ \E g \in Procs : MapFieldStep(g) /\ UNCHANGED <<pvars, rvars, avars, cvars, fvars>>
    \/ \E g \in Procs : ValidateStep(g) /\ UNCHANGED <<pvars, rvars, avars, cvars, fvars>>

InitConcurrent ==
    ConcurrentInit /\ PipelineIdle /\ ResolveIdle /\ AnnotateIdle /\ MapRowIdle /\ StreamFileIdle

SpecConcurrent == InitConcurrent /\ [][NextConcurrent]_vars

(***************************************************************************)
(* Properties                                                              *)
(***************************************************************************)
\* the rows of the sheet a reader iterates, once its start has succeeded
RowsOf(rd) == IF rd.sheet \in DOMAIN book.sheets THEN book.sheets[rd.sheet] ELSE <<>>

Readers == {batch, stream}

\* a cell counts as blank when it holds nothing but white space
BlankRow(row) == \A i \in 1..Len(row.cols) : \A j \in 1..Len(row.cols[i]) : row.cols[i][j] \in SpaceChars

\* the physical rows a reader has passed so far that are retained: read without
\* an error, at or after the first data row, not blank
Retained(rd) ==
    {r \in 1..rd.rowIdx : /\ ~RowsOf(rd)[r].bad
                          /\ r >= rd.o.FirstDataRow
                          /\ ~BlankRow(RowsOf(rd)[r])}

RECURSIVE ConcatRowErrs(_)
ConcatRowErrs(entries) ==
    IF entries = <<>> THEN <<>> ELSE Head(entries).rowErrs \o ConcatRowErrs(Tail(entries))

RECURSIVE KthOf(_, _)
KthOf(S, k) ==
    LET m == CHOOSE x \in S : \A y \in S : x <= y
    IN  IF k = 1 THEN m ELSE KthOf(S \ {m}, k - 1)

\* C3: in both readers the rows given to mapRow are exactly the retained rows,
\* in physical order (a blank row adds nothing: no mapRow call, no record, no
\* RowError, no handler call, no count); the i-th of them gets logical index i,
\* or mapper(physical row, i) when a RowIndexMapper is set.
C3_BlankRowsSkipped ==
    \A rd \in Readers :
        /\ Len(rd.log) = Cardinality(Retained(rd))
        /\ rd.dataIdx = Cardinality(Retained(rd))
        /\ \A i \in 1..Len(rd.log) :
              /\ rd.log[i].rowIdx = KthOf(Retained(rd), i)
              /\ rd.log[i].logicalIdx =
                    IF rd.o.RowIndexMapper = "nil" THEN i ELSE rd.log[i].rowIdx * 10 + i
        /\ \A k \in 1..Len(rd.errs) :
              \/ rd.errs[k].ExcelRowIndex \in Retained(rd)
              \/ RowsOf(rd)[rd.errs[k].ExcelRowIndex].bad
        /\ \A k \in 1..Len(rd.calls) :
              \/ rd.calls[k].rowIdx \in Retained(rd)
              \/ RowsOf(rd)[rd.calls[k].rowIdx].bad
        /\ Len(rd.result) <= Cardinality(Retained(rd))

\* C3 witness: both readers have passed a blank row at or after the first data
\* row and mapped a row after it
C3_Witness ==
    \A rd \in Readers :
        \E r \in 1..rd.rowIdx :
            /\ r >= rd.o.FirstDataRow
            /\ ~RowsOf(rd)[r].bad
            /\ RowsOf(rd)[r].cols # <<>>
            /\ BlankRow(RowsOf(rd)[r])
            /\ \E i \in 1..Len(rd.log) : rd.log[i].rowIdx > r

\* C4: once the handler has returned an error it is not called again and no
\* further row is taken; streamFromExcelFile then returns that error together
\* with the RowErrors of the rows delivered up to and including that call.
C4_StreamStopsAtHandlerError ==
    /\ \A i \in 1..Len(stream.calls) : i < Len(stream.calls) => stream.calls[i].ret = "nil"
    /\ stream.errs = ConcatRowErrs(stream.calls)
    /\ \A i \in 1..Len(stream.calls) :
          stream.calls[i].ret # "nil" =>
             /\ stream.rowIdx = stream.calls[i].rowIdx
             /\ stream.pc = "done" =>
                   /\ stream.ret[1].err = stream.calls[i].ret
                   /\ stream.ret[1].errs = ConcatRowErrs(stream.calls)

\* C4 witness: the handler stopped the stream on a row with errors, rows were left
C4_Witness ==
    /\ stream.pc = "done"
    /\ stream.ret[1].err = "stop"
    /\ Len(stream.calls) > 1
    /\ stream.calls[Len(stream.calls)].rowErrs # <<>>
    /\ stream.rowIdx < Len(RowsOf(stream))

\* whether the options select a sheet of the workbook
SheetResolvable ==
    IF opts.SheetName # "" THEN opts.SheetName \in DOMAIN book.sheets
    ELSE opts.SheetIndex < Len(book.names)

TheRows ==
    IF SheetResolvable
    THEN book.sheets[IF opts.SheetName # "" THEN opts.SheetName ELSE book.names[opts.SheetIndex + 1]]
    ELSE <<>>

\* the header row the call is configured with, 0 for none
ConfiguredHeaderRow == IF opts.HeaderRow = 0 /\ opts.FirstDataRow = 0 THEN 1 ELSE opts.HeaderRow

BadRowsOf(rows) == {r \in 1..Len(rows) : rows[r].bad}

\* C5 as claimed: in batch mode a row whose cells cannot be read never makes the
\* read fail; with the sheet and the header row there, the read visits every row
\* and returns a nil error.
C5_NoRowProblemIsFatal ==
    (batch.pc = "done" /\ SheetResolvable /\ ConfiguredHeaderRow <= Len(TheRows))
        => /\ batch.ret[1].err = "nil"
           /\ batch.rowIdx = Len(TheRows)

\* C6: when the sheet cannot be resolved, the header row does not exist or, for
\* the stream, no handler is set, the call returns an error with no records and
\* no RowErrors, and no row was mapped or given to the handler.
C6_SetupErrorsAreFatal ==
    \A rd \in Readers :
        (/\ rd.pc = "done"
         /\ \/ ~SheetResolvable
            \/ ConfiguredHeaderRow > Len(TheRows)
            \/ rd = stream /\ ~opts.streamHandler)
        => /\ rd.ret[1].err # "nil"
           /\ rd.ret[1].result = <<>>
           /\ rd.ret[1].errs = <<>>
           /\ rd.log = <<>>
           /\ rd.calls = <<>>
           /\ rd.rowIdx = 0

\* C6 witness: both calls failed on a header row the sheet does not have
C6_Witness ==
    /\ batch.pc = "done" /\ stream.pc = "done"
    /\ Len(TheRows) > 0
    /\ batch.ret[1].err = "header row not found"
    /\ stream.ret[1].err = "header row not found"

\* the records the handler was given, in order
RECURSIVE RecordsOf(_)
RecordsOf(calls) ==
    IF calls = <<>> THEN <<>> ELSE Head(calls).obj \o RecordsOf(Tail(calls))

\* C7: on the same workbook and options, with a handler that never returns an
\* error, the stream returns the RowErrors the batch read returns, gives the
\* handler the records the batch read returns, and maps the same rows under the
\* same physical and logical row numbers.
C7_BatchAndStreamAgree ==
    (/\ batch.pc = "done" /\ stream.pc = "done"
     /\ opts.streamHandler
     /\ \A i \in 1..Len(stream.calls) : stream.calls[i].ret = "nil")
    => /\ stream.ret[1].errs = batch.ret[1].errs
       /\ (stream.ret[1].err = "nil") <=> (batch.ret[1].err = "nil")
       /\ RecordsOf(stream.calls) = batch.ret[1].result
       /\ [i \in 1..Len(stream.log) |-> <<stream.log[i].rowIdx, stream.log[i].logicalIdx>>]
            = [i \in 1..Len(batch.log) |-> <<batch.log[i].rowIdx, batch.log[i].logicalIdx>>]

\* the column a col tag names, by the tag's text: -1 when it names none
NumberHint(tag) ==
    CASE tag = <<"1">> -> 0
      [] tag = <<" ", "2">> -> 1
      [] OTHER -> -1

\* the column an excelcol tag names, by the tag's text: -1 when it names none
LetterHint(tag) ==
    CASE tag = <<"c">> -> 2
      [] tag = <<" ", "B">> -> 1
      [] tag = <<"A", "A">> -> 26
      [] OTHER -> -1

\* the aliases of an excel tag in tag order, as header keys
AliasKeys(tag) ==
    CASE tag = <<"I", "d">> -> << <<"i", "d">> >>
      [] tag = <<"N", "o", ",", "I", "d">> -> << <<"n", "o">>, <<"i", "d">> >>
      [] tag = <<" ", "i", "D", " ", ",", ",", "Z">> -> << <<"i", "d">>, <<"z">> >>
      [] OTHER -> <<>>

\* the header key of every column of a header row, the empty text for a blank cell
KeysOfHeaderRow(h) ==
    CASE h = << <<"I", "d">>, <<"N", "o">> >> -> << <<"i", "d">>, <<"n", "o">> >>
      [] h = << <<"N", "o">>, <<" ", "I", "D", " ">> >> -> << <<"n", "o">>, <<"i", "d">> >>
      [] h = << <<"x">>, <<>>, <<"y">>, <<"i", "d">> >> -> << <<"x">>, <<>>, <<"y">>, <<"i", "d">> >>
      [] h = << <<"I", "d">>, <<"n", "o">>, <<"i", "d">>, <<"N", "O">> >>
            -> << <<"i", "d">>, <<"n", "o">>, <<"i", "d">>, <<"n", "o">> >>
      [] OTHER -> <<>>

\* the aliases, by position, that are the key of some column of the header row
MatchingAliases(aliases, keys) ==
    {i \in 1..Len(aliases) : \E c \in 1..Len(keys) : keys[c] = aliases[i]}

\* the zero-based columns of the header row under the first matching alias
AliasColumns(aliases, keys) ==
    LET hit == MatchingAliases(aliases, keys)
        first == CHOOSE i \in hit : \A j \in hit : i <= j
    IN  IF hit = {} THEN {} ELSE {c - 1 : c \in {d \in 1..Len(keys) : keys[d] = aliases[first]}}

\* C2: a field resolves to the column of its col tag; without one, to the column
\* of its excelcol tag; without either, to a column whose header key is the
\* first alias of its excel tag that is a header key; and to no column when
\* none of the three names one.
C2_ResolutionPrecedence ==
    rPc = "resolved" =>
        LET n == NumberHint(rField.col)
            l == LetterHint(rField.excelcol)
            cs == AliasColumns(AliasKeys(rField.excel), KeysOfHeaderRow(rHeader))
        IN  IF n >= 0 THEN DOMAIN rCols = {1} /\ rCols[1] = n
            ELSE IF l >= 0 THEN DOMAIN rCols = {1} /\ rCols[1] = l
            ELSE IF cs # {} THEN DOMAIN rCols = {1} /\ rCols[1] \in cs
            ELSE DOMAIN rCols = {}

\* C2 witness: the three hints name columns 0, 2 and 3 and the field is resolved
\* to column 0
C2_Witness ==
    /\ rPc = "resolved"
    /\ rField.col = <<"1">>
    /\ rField.excelcol = <<"c">>
    /\ rField.excel = <<"I", "d">>
    /\ rHeader = << <<"x">>, <<>>, <<"y">>, <<"i", "d">> >>
    /\ rCols[1] = 0

\* msgs one per line: msgs[1], "\n", msgs[2], ..., the empty text for none
Lines(msgs) ==
    [k \in 1..(IF msgs = <<>> THEN 0 ELSE 2 * Len(msgs) - 1) |->
        IF k % 2 = 1 THEN msgs[(k + 1) \div 2] ELSE "\n"]

\* what a cell holding old holds once msgs were added to it, each on a new line
WithLines(old, msgs) ==
    IF msgs = <<>> THEN old
    ELSE IF old = <<>> THEN Lines(msgs)
    ELSE old \o <<"\n">> \o Lines(msgs)

\* the document an annotate call that returned nil produced
Output == IF aCall.kind = "to" THEN aCall.sink[1] ELSE aDisk

\* an annotate call that went through its loop and returned nil
Annotated == aCall.pc = "done" /\ aCall.ret = "nil" /\ aCall.errs # <<>>

\* the messages an annotate call has for one cell of one sheet
CallMessages(sheet, coord) ==
    IF sheet = aCall.sheet /\ coord[1] = aCall.o.ErrorColumnIndex
    THEN MessagesFor(aCall.errs, coord[2])
    ELSE <<>>

\* C8: an annotate call leaves in every cell it writes what the cell held,
\* followed by its messages for that cell, each on a new line and in the order
\* of the list; so every cell of the document holds its first text followed by
\* every message any WriteErrors call wrote to it, in the order written.
C8_NeverOverwrites ==
    /\ \A t \in DOMAIN aWritten :
          aDisk.sheets[t[1]][t[2]] = WithLines(aInit.sheets[t[1]][t[2]], aWritten[t])
    /\ Annotated =>
          \A t \in DOMAIN aWritten :
             Output.sheets[t[1]][t[2]]
                = WithLines(aCall.before[1].sheets[t[1]][t[2]], CallMessages(t[1], t[2]))

\* C8 witness: a cell that held text was given two messages by one call and a
\* third by a later call
C8_Witness ==
    /\ aCall.pc = "done" /\ aCall.kind = "path" /\ aCall.ret = "nil"
    /\ aCount = 2
    /\ aInit.sheets["S1"][<<2, 1>>] # <<>>
    /\ aWritten[<<"S1", <<2, 1>>>>] = <<"e2", "e1", "e1">>

\* the rows the error list of the call names, the positive ones
ErrorRows == {aCall.errs[k].ExcelRowIndex : k \in 1..Len(aCall.errs)} \ {0}

\* C9: after an annotate call with error column c, reading column c on a row
\* that had errors gives that row's messages, after what the cell held before
\* if it held any; every other cell of every sheet is as before, a row error
\* with row number 0 changes nothing, and WriteErrorsTo leaves its input as it was.
C9_RoundTripAndFrame ==
    Annotated =>
        /\ \A r \in ErrorRows :
              LET read == GetCellValue(Output, aCall.sheet,
                                       CellName(colLetter(aCall.o.ErrorColumnIndex - 1), r))
                  was == aCall.before[1].sheets[aCall.sheet][<<aCall.o.ErrorColumnIndex, r>>]
                  msgs == Lines(MessagesFor(aCall.errs, r))
              IN  /\ Len(read) >= Len(msgs)
                  /\ SubSeq(read, Len(read) - Len(msgs) + 1, Len(read)) = msgs
                  /\ was = <<>> => read = msgs
        /\ Output.names = aCall.before[1].names
        /\ \A t \in DOMAIN aWritten :
              ~ (t[1] = aCall.sheet /\ t[2][1] = aCall.o.ErrorColumnIndex /\ t[2][2] \in ErrorRows)
                 => Output.sheets[t[1]][t[2]] = aCall.before[1].sheets[t[1]][t[2]]
        /\ aCall.kind = "to" => aDisk = aCall.before[1]

\* C9 witness: a call with errors on rows 0, 1 and 2 wrote an empty error column
C9_Witness ==
    /\ Annotated
    /\ aCall.sheet = "S1"
    /\ aCall.before[1].sheets[aCall.sheet][<<aCall.o.ErrorColumnIndex, 1>>] = <<>>
    /\ \E k \in 1..Len(aCall.errs) : aCall.errs[k].ExcelRowIndex = 0
    /\ Output.sheets[aCall.sheet][<<aCall.o.ErrorColumnIndex, 1>>] = <<"e2", "\n", "e1">>
    /\ Output.sheets["S1"][<<1, 1>>] = <<"a">>

\* C10 as claimed: an annotate call without a positive error column returns a
\* configuration error and leaves the document as it was, whatever the list.
C10_NoErrorColumnFails ==
    (aCall.pc = "done" /\ aCall.o.ErrorColumnIndex <= 0)
        => /\ aCall.ret = "config error"
           /\ aDisk = aCall.before[1]

\* C10 amended: given a list that is not empty, an annotate call without a
\* positive error column returns a configuration error, leaves the document as
\* it was and writes nothing to the sink; given an empty list it returns nil,
\* WriteErrors touching nothing and WriteErrorsTo copying its input to the sink.
C10_NoErrorColumnFailsUnlessEmpty ==
    (aCall.pc = "done" /\ aCall.o.ErrorColumnIndex <= 0)
        => /\ aDisk = aCall.before[1]
           /\ IF aCall.errs # <<>>
              THEN aCall.ret = "config error" /\ aCall.sink = <<>>
              ELSE /\ aCall.ret = "nil"
                   /\ aCall.sink = IF aCall.kind = "to" THEN aCall.before ELSE <<>>

\* C10 witness: a call with an error on row 1 and no positive error column failed
C10_Witness ==
    /\ aCall.pc = "done"
    /\ aCall.o.ErrorColumnIndex <= 0
    /\ \E k \in 1..Len(aCall.errs) : aCall.errs[k].ExcelRowIndex = 1
    /\ aCall.ret = "config error"

\* the sample texts that denote an integer a field of the kind cannot hold
OutOfRangeTexts(kind) ==
    LET big == {<<"9","9","9","9","9","9","9","9","9","9","9","9","9","9","9","9","9","9","9","9">>,
                <<"-","9","9","9","9","9","9","9","9","9","9","9","9","9","9","9","9","9","9","9","9">>}
        over16 == {<<"3", "2", "7", "6", "8">>, <<"-", "3", "2", "7", "6", "9">>,
                   <<"6", "5", "5", "3", "5">>, <<"6", "5", "5", "3", "6">>}
        over8 == {<<"1", "2", "8">>, <<"-", "1", "2", "9">>, <<"2", "5", "5">>, <<"2", "5", "6">>,
                  <<"3", "0", "0">>, <<"3", "2", "7", "6", "7">>}
        negative == {<<"-", "1">>, <<"-", "1", "2", "8">>, <<"-", "1", "2", "9">>,
                     <<"-", "3", "2", "7", "6", "9">>}
    IN  CASE kind = "int" -> big
          [] kind = "int16" -> big \cup over16
          [] kind = "int8" -> big \cup over16 \cup over8
          [] kind = "uint" -> big \cup negative
          [] kind = "uint16" -> big \cup negative \cup {<<"6", "5", "5", "3", "6">>}
          [] kind = "uint8" -> big \cup negative \cup (over16 \ {<<"-", "3", "2", "7", "6", "9">>})
                               \cup {<<"2", "5", "6">>, <<"3", "0", "0">>, <<"3", "2", "7", "6", "7">>}
          [] OTHER -> {}

\* C11 as claimed: cell text that denotes an integer outside the range of the
\* integer field it is mapped to gives a conversion error and a RowError, and
\* the row gives no record; the field is never assigned a wrapped value.
C11_OutOfRangeIntegerFails ==
    (cPc = "mapped" /\ Len(cStruct) = 1 /\ cRow[1] \in OutOfRangeTexts(cStruct[1].Kind))
        => /\ ~cOut[1].ok
           /\ Len(cOut[1].rowErrs) = 1
           /\ cOut[1].rowErrs[1].Field = "V"

\* the first day of the month after that of a date
NextMonth(date) ==
    IF date[2] < 12 THEN <<date[1], date[2] + 1, 1>> ELSE <<date[1] + 1, 1, 1>>

\* the date n days after a date, counted month by month
RECURSIVE DaysAfter(_, _)
DaysAfter(date, n) ==
    IF date[3] + n <= DaysIn(date[2], date[1]) THEN <<date[1], date[2], date[3] + n>>
    ELSE DaysAfter(NextMonth(date), n - (DaysIn(date[2], date[1]) - date[3]) - 1)

\* the whole-number serial texts among the samples, with the numbers they denote
WholeSerials ==
    {<<<<"4", "5", "0", "0", "0">>, 45000>>, <<<<"1">>, 1>>, <<<<"2">>, 2>>, <<<<"6", "1">>, 61>>, <<<<"3", "6", "6">>, 366>>, <<<<"+", "7">>, 7>>}

\* the serial texts among the samples that denote a number greater than 0
PositiveSerialTexts ==
    {<<"4", "5", "0", "0", "0">>,
     <<"1">>,
     <<"2">>,
     <<"6", "1">>,
     <<"3", "6", "6">>,
     <<"+", "7">>,
     <<"0", ".", "5">>,
     <<"1", ".", "5">>,
     <<"6", "0", ".", "7", "5">>,
     <<"0", ".", "0", "0", "0", "1">>,
     <<".", "5">>}

\* the date n days after a date of December 1899.  The 123 years up to the
\* same date of 2022 have 30 leap days (1904 to 2020; 1900 has none), that is
\* 123 * 365 + 30 = 44925 days.
DateAfter(date, n) ==
    IF n >= 44925 THEN DaysAfter(<<date[1] + 123, date[2], date[3]>>, n - 44925)
    ELSE DaysAfter(date, n)

\* a row with one date cell mapped into a time.Time field with no layout of
\* its own, the cell text a number
SerialMapped ==
    /\ cPc = "mapped"
    /\ cStruct[1].Kind = "time"
    /\ cRow[1] \in SerialTextSamples

\* C12 as claimed: number text is accepted as a date exactly when the number
\* is greater than 0, and a whole number n gives the date n days after the
\* date before 1900-01-01, which is 1899-12-31.
C12_SerialFromDayBefore1900 ==
    SerialMapped =>
        /\ cOut[1].ok <=> cRow[1] \in PositiveSerialTexts
        /\ \A w \in WholeSerials :
              cRow[1] = w[1] =>
                 cOut[1].obj.V = [date |-> DateAfter(<<1899, 12, 31>>, w[2]), sec |-> 0, zone |-> 0]

\* C12 amended: number text is accepted as a date exactly when the number is
\* greater than 0, a rejected one giving one RowError and no record, and a
\* whole number n gives midnight UTC of the date n days after 1899-12-30, two
\* days before 1900-01-01.
C12_SerialFrom18991230 ==
    SerialMapped =>
        /\ cOut[1].ok <=> cRow[1] \in PositiveSerialTexts
        /\ ~cOut[1].ok => Len(cOut[1].rowErrs) = 1 /\ cOut[1].rowErrs[1].Err = "cannot parse time"
        /\ \A w \in WholeSerials :
              cRow[1] = w[1] =>
                 cOut[1].obj.V = [date |-> DateAfter(<<1899, 12, 30>>, w[2]), sec |-> 0, zone |-> 0]

\* C12 witness: the serial 45000 was mapped to 2023-03-15
C12_Witness ==
    /\ SerialMapped
    /\ cRow[1] = <<"4", "5", "0", "0", "0">>
    /\ cOut[1].ok
    /\ cOut[1].obj.V.date = <<2023, 3, 15>>

\* the positions in meta.Fields of the required descriptors a reader left
\* unmapped: no column under any of the three addressing schemes
UnmappedRequired(rd) ==
    IF metaCache = <<>> THEN {}
    ELSE {k \in 1..Len(metaCache[1].Fields) :
             metaCache[1].Fields[k].Required /\ k \notin DOMAIN rd.fieldColIndex}

\* C13: when a required field is left unmapped, every retained data row the
\* reader maps yields a RowError for that field and no record.
C13_UnmappedRequiredFails ==
    \A rd \in Readers : rd.pc \in {"rows", "done"} =>
        \A k \in UnmappedRequired(rd) : \A i \in 1..Len(rd.log) :
            /\ ~rd.log[i].ok
            /\ \E e \in 1..Len(rd.log[i].rowErrs) :
                  rd.log[i].rowErrs[e].Field = metaCache[1].Fields[k].FieldName


\* the struct fields the validator can fail that the descriptors do not hold
UnknownValidated(struct) ==
    {i \in 1..Len(struct) : /\ struct[i].validate = "required"
                            /\ FindFieldByName(BuildTypeMeta(struct), struct[i].Name) = 0}

\* a mapped row whose record fails validation on a field unknown to the
\* descriptors, every mapped field having converted
UnknownFieldFailed ==
    /\ cPc = "mapped"
    /\ cOpts.GoValidator
    /\ UnknownValidated(cStruct) # {}

\* the RowErrors of the mapped row that name no field
NamelessErrs == {e \in 1..Len(cOut[1].rowErrs) : cOut[1].rowErrs[e].Field = ""}

\* C14 as stated: a validation failure on a field unknown to the descriptors
\* gives a RowError whose column is -1, not zero, and the row is invalid.
C14_UnknownFieldColumnMinusOne ==
    UnknownFieldFailed =>
        /\ ~cOut[1].ok
        /\ NamelessErrs # {}
        /\ \A e \in NamelessErrs : cOut[1].rowErrs[e].ColIndex = -1

\* C14 amended: the column passed for the unknown field is -1, which the
\* RowError holds as ColIndex 0 of its 1-based numbering, with no column
\* letter, no header name and no raw value; there is one such RowError per
\* failure and the row is invalid with no record.
C14_UnknownFieldHasNoColumn ==
    UnknownFieldFailed =>
        /\ ~cOut[1].ok
        /\ cOut[1].obj = ZeroStruct(cStruct)
        /\ Cardinality(NamelessErrs) = Cardinality(UnknownValidated(cStruct))
        /\ \A e \in NamelessErrs :
              /\ cOut[1].rowErrs[e].ColIndex = 0
              /\ cOut[1].rowErrs[e].ColLetter = <<>>
              /\ cOut[1].rowErrs[e].Column = <<>>
              /\ cOut[1].rowErrs[e].Value = <<>>
              /\ cOut[1].rowErrs[e].ExcelRowIndex = 2
              /\ cOut[1].rowErrs[e].Err = "validation failed"

\* C14 witness: the cell of the only mapped field converted, and the one
\* RowError of the row is the validator's for the unknown field
C14_Witness ==
    /\ UnknownFieldFailed
    /\ cRow = << <<"7">> >>
    /\ Len(cOut[1].rowErrs) = 1
    /\ NamelessErrs = {1}


\* the descriptors a reader resolved through a header alias: no usable col tag
\* and no usable excelcol tag
AliasResolved(rd) ==
    {k \in DOMAIN rd.fieldColIndex :
        /\ metaCache[1].Fields[k].ColIndexTag < 0
        /\ \/ metaCache[1].Fields[k].ColLetterTag = <<>>
           \/ colIndexFromLetter(metaCache[1].Fields[k].ColLetterTag) < 0}

\* the first data row the spec gives the call: the one set, else the row after
\* the header row set, else row 2
FirstDataRowExpected ==
    IF opts.FirstDataRow # 0 THEN opts.FirstDataRow
    ELSE IF opts.HeaderRow > 0 THEN opts.HeaderRow + 1
    ELSE 2

PassMessages(r) == MessagesFor(fCall.errs, r)

\* C16: when StreamFile returns with an error column > 0 configured and at
\* least one Row Error accumulated, the file holds the messages of every row's
\* errors in that column; with no error column or no Row Error the file is as
\* it was.
C16_StreamFileWritesBack ==
    fCall.pc = "done" =>
        IF fOpts.ErrorColumnIndex > 0 /\ Len(fCall.errs) > 0
        THEN \A r \in 1..3 :
                PassMessages(r) # <<>> =>
                    fDisk.sheets[fCall.sheet][<<fOpts.ErrorColumnIndex, r>>]
                        = WithLines(fInit.sheets[fCall.sheet][<<fOpts.ErrorColumnIndex, r>>],
                                    PassMessages(r))
        ELSE fDisk = fInit


\* C17: the descriptors of a cached type are immutable: every typeMeta ever
\* built holds, whatever reads have run, the state it was constructed with.
C17_DescriptorsImmutable ==
    \A id \in 1..Len(gHeap) : gHeap[id] = BuildTypeMeta(PartStruct)

\* the reads that have been given a typeMeta
Served == {g \in DOMAIN gRead : gRead[g].meta # 0}

\* C18: however the first reads of a type interleave, its typeMeta is built
\* and stored exactly once, and every read is given that one instance.
C18_BuiltOnceSharedByAll ==
    /\ Len(gHeap) <= 1
    /\ gStores <= 1
    /\ \A g \in Served : gCache = <<gRead[g].meta>>

\* the RowErrors the validator's failures gave a finished read, by position
ValidatorErrs(rd) ==
    {e \in 1..Len(rd.out[1].rowErrs) :
        rd.out[1].rowErrs[e].Err = "validation failed" /\ rd.out[1].rowErrs[e].Field # ""}

\* C19: a validator-derived RowError for a known field carries the column the
\* same read resolved for the field and that row's text in it, and no column
\* when the read resolved none for the field.
C19_ValidatorErrorsCarryOwnColumn ==
    \A g \in DOMAIN gRead : gRead[g].pc = "done" =>
        \A e \in ValidatorErrs(gRead[g]) :
            LET re == gRead[g].out[1].rowErrs[e]
                k  == FindFieldByName(gHeap[gRead[g].meta], re.Field)
            IN  IF k \in DOMAIN gRead[g].fieldColIndex
                THEN /\ re.ColIndex = gRead[g].fieldColIndex[k] + 1
                     /\ re.Value = IF gRead[g].fieldColIndex[k] < Len(gRead[g].cols)
                                   THEN gRead[g].cols[gRead[g].fieldColIndex[k] + 1]
                                   ELSE <<>>
                ELSE /\ re.ColIndex = 0
                     /\ re.ColLetter = <<>>
                     /\ re.Value = <<>>


\* a reader that got past its setup: it resolved the columns of the fields
Resolved(rd) == rd.pc \in {"rows", "done"} /\ rd.sheet # ""

\* C20: two reads of the same workbook with the same record type and options
\* resolve every field to the same column, repeated header texts included.
C20_ResolutionDeterministic ==
    (Resolved(batch) /\ Resolved(stream)) => batch.fieldColIndex = stream.fieldColIndex

=============================================================================
